---------------------------- MODULE Spec2Model ----------------------------
(***************************************************************************)
(* State-machine model of the anaStruct truss generator                    *)
(* (src/anastruct/preprocess/truss_class.py, truss.py).                    *)
(*                                                                         *)
(* Numbers.  One length unit is Scale = 2^25 ticks.  A float32 has a       *)
(* 24-bit significand, so every whole number of ticks below half a unit is *)
(* a float32 and the float32 grid above it is a whole number of ticks (2   *)
(* ticks in [0.5, 1), 4 in [1, 2), 8 in [2, 4), ...): a Vertex coordinate, *)
(* which the program stores as float32, is an integer number of ticks, and *)
(* so is a constructor argument.  A Python float (a double, 53-bit         *)
(* significand) that the program computes is a sequence <<t, f1, .., fk>>: *)
(* t whole ticks and the places f1 .. fk, each one of Fine = 2^30 parts of *)
(* the place before, at most FineDigits = 3 of them, i.e. a multiple of    *)
(* 2^-115 units.  Every double of magnitude at least 2^-63 units is such a *)
(* sequence, and the doubles the constructors compute from their arguments *)
(* are; DAdd, DSub, DMul, DDiv, DDivInt and Frac round their exact result  *)
(* to 53 significant bits, ties to even, as the machine does.  Single is   *)
(* the cast to float32 that Vertex applies to a double; below a quarter of *)
(* a unit, where the float32 grid is finer than a tick, it gives the       *)
(* nearest tick, which can be a fraction of a tick away from the           *)
(* program's coordinate.  The tolerance 1e-6 is 33.554432 ticks.           *)
(* Lengths are below 64 units, the range of a 32-bit integer of ticks.     *)
(* min_end_fraction is a double, in 2^-25 parts like a length (0.5 is     *)
(* Double(Scale \div 2)), roof pitches are hundredths of                   *)
(* a degree, and np.tan/np.cos/np.sin are the tables Tan/Cos/Sin of the    *)
(* doubles they return on the pitches the model enumerates.                *)
(*                                                                         *)
(* Objects.  Mutable Python containers (lists, dicts) live in `heap`, a    *)
(* sequence of cells; an attribute that holds a container holds the index  *)
(* of its cell, so two attributes alias exactly when the indices agree.    *)
(***************************************************************************)
EXTENDS Integers, Sequences, FiniteSets, TLC

(***************************************************************************)
(* Numeric representation                                                  *)
(***************************************************************************)
\* ticks per length unit: 2^25, two binary places more than what a float32
\* holds of a coordinate in [1, 2) (vertex.py:24-30)
Scale == 33554432
\* tolerance = 1e-6 (truss_class.py:487) is Scale / 10^6 = 33.554432 ticks:
\* a whole number of ticks d has d < 1e-6 exactly when d < tolerance
tolerance == 34
\* tolerance ** 2 = 1e-12 is 1125.89... square ticks: a whole number q of
\* square ticks has sqrt(q) < 1e-6 exactly when q < tolerance_squared
\* (truss_class.py:507-508)
tolerance_squared == 1126
Abs(x) == IF x < 0 THEN -x ELSE x

\* size of a float32 significand, 2^24 (vertex.py:24-30): the whole numbers
\* of ticks below it are float32 values
Significand == 16777216

\* The float32 product, quotient or root of float32 values that lies
\* strictly between the ticks t and t + 1, below (-1), at (0) or above (1)
\* the middle of the interval, as a tick that Float32 rounds as it would
\* round the value itself: the nearest tick where the float32 grid is a
\* tick or finer, the float32 value where the grid is two ticks, the odd
\* tick where it is coarser
Held(t, pos) ==
    LET lo == IF t >= 0 THEN t ELSE -t - 1
    IN  IF lo < Significand
        THEN (IF pos > 0 \/ (pos = 0 /\ t % 2 = 1) THEN t + 1 ELSE t)
        ELSE IF lo < 2 * Significand THEN (IF t % 2 = 0 THEN t ELSE t + 1)
        ELSE IF t % 2 = 0 THEN t + 1 ELSE t

\* The float32 grid at magnitude m, in ticks: 1 below 2^24 ticks, doubling
\* with every binary place above
RECURSIVE Step(_)
Step(m) == IF m < Significand THEN 1 ELSE 2 * Step(m \div 2)

\* np.float32(x): round to nearest on the float32 grid, ties to even
Float32(x) ==
    LET m    == Abs(x)
        step == Step(m)
        q    == m \div step
        rest == m - q * step
        up   == 2 * rest > step \/ (2 * rest = step /\ q % 2 = 1)
        r    == (IF up THEN q + 1 ELSE q) * step
    IN  IF x < 0 THEN -r ELSE r

(***************************************************************************)
(* Doubles.  <<t, f1, ..., fk>> is t + f1 / Fine + ... + fk / Fine^k ticks *)
(* with 0 <= fi < Fine, 1 <= k <= FineDigits, and no zero at the end after *)
(* f1, so that equal doubles are equal sequences.  The arithmetic works on *)
(* the magnitude as a whole number of 2^-GridBits units, written in limbs  *)
(* of LimbBits bits from the lowest up, so that no intermediate result     *)
(* leaves 32 bits.                                                         *)
(***************************************************************************)
\* parts of a tick in one place of a double: 2^30
Fine == 1073741824
\* places a double is held to, and the grid they make: 2^-(25 + 3 * 30)
\* units, the grid of the doubles in [2^-63, 2^-62) units
FineDigits == 3
GridBits == 115
LimbBits == 15
Limb == 32768
\* bits of a double's significand
DoubleBits == 53

At(n, i) == IF i <= Len(n) THEN n[i] ELSE 0
\* float(t / Scale) of a whole number of ticks
Double(t) == <<t, 0>>
\* d without the zero places at its end
RECURSIVE Trimmed(_)
Trimmed(d) ==
    IF Len(d) > 2 /\ d[Len(d)] = 0 THEN Trimmed(SubSeq(d, 1, Len(d) - 1))
    ELSE d
\* -d
Neg(d) ==
    IF Len(d) = 2 /\ d[2] = 0 THEN <<-d[1], 0>>
    ELSE [i \in 1..Len(d) |-> IF i = 1 THEN -d[1] - 1
                               ELSE IF i = Len(d) THEN Fine - d[i]
                               ELSE Fine - 1 - d[i]]
\* a < b
Less(a, b) ==
    \E i \in 1..(FineDigits + 1) :
        At(a, i) < At(b, i) /\ \A j \in 1..(i - 1) : At(a, j) = At(b, j)
Magnitude(d) == IF d[1] < 0 THEN Neg(d) ELSE d

\* The limbs of a double d >= 0: two to a place, three for the ticks; and
\* the double of that many limbs
Limbs(d) ==
    [i \in 1..(2 * FineDigits) |->
        LET f == At(d, FineDigits + 1 - (i - 1) \div 2)
        IN  IF i % 2 = 1 THEN f % Limb ELSE f \div Limb]
    \o <<d[1] % Limb, (d[1] \div Limb) % Limb, d[1] \div (Limb * Limb)>>
MagLimbs(d) == Limbs(Magnitude(d))
OfLimbs(n) ==
    LET low == 2 * FineDigits
    IN  Trimmed(<<At(n, low + 1) + Limb * At(n, low + 2)
                    + Limb * Limb * At(n, low + 3)>>
                \o [j \in 1..FineDigits |->
                        At(n, low + 1 - 2 * j) + Limb * At(n, low + 2 - 2 * j)])

\* a + b, a - b for a >= b, and the sign of a - b
RECURSIVE AddFrom(_, _, _, _)
AddFrom(a, b, i, carry) ==
    IF i > Len(a) /\ i > Len(b) THEN (IF carry = 0 THEN <<>> ELSE <<carry>>)
    ELSE LET s == At(a, i) + At(b, i) + carry
         IN  <<s % Limb>> \o AddFrom(a, b, i + 1, s \div Limb)
Add(a, b) == AddFrom(a, b, 1, 0)

RECURSIVE SubFrom(_, _, _, _)
SubFrom(a, b, i, borrow) ==
    IF i > Len(a) THEN <<>>
    ELSE LET s == a[i] - At(b, i) - borrow
         IN  <<IF s < 0 THEN s + Limb ELSE s>>
                 \o SubFrom(a, b, i + 1, IF s < 0 THEN 1 ELSE 0)
Sub(a, b) == SubFrom(a, b, 1, 0)

RECURSIVE CmpFrom(_, _, _)
CmpFrom(a, b, i) ==
    IF i = 0 THEN 0
    ELSE IF At(a, i) > At(b, i) THEN 1
    ELSE IF At(a, i) < At(b, i) THEN -1
    ELSE CmpFrom(a, b, i - 1)
Cmp(a, b) == CmpFrom(a, b, IF Len(a) > Len(b) THEN Len(a) ELSE Len(b))

\* a * d for a digit 0 <= d < Limb, and a * b
RECURSIVE RowFrom(_, _, _, _)
RowFrom(a, d, i, carry) ==
    IF i > Len(a) THEN (IF carry = 0 THEN <<>> ELSE <<carry>>)
    ELSE LET p == a[i] * d + carry
         IN  <<p % Limb>> \o RowFrom(a, d, i + 1, p \div Limb)
Row(a, d) == RowFrom(a, d, 1, 0)

RECURSIVE MulFrom(_, _, _)
MulFrom(a, b, j) ==
    IF j > Len(b) THEN <<>>
    ELSE Add(Row(a, b[j]), <<0>> \o MulFrom(a, b, j + 1))
BigMul(a, b) == MulFrom(a, b, 1)

\* The number of bits of a digit and of a number
RECURSIVE Bits(_)
Bits(x) == IF x = 0 THEN 0 ELSE 1 + Bits(x \div 2)
RECURSIVE Top(_, _)
Top(n, i) == IF i = 0 THEN 0 ELSE IF n[i] # 0 THEN i ELSE Top(n, i - 1)
BitsTo(n, i) == IF i = 0 THEN 0 ELSE LimbBits * (i - 1) + Bits(n[i])
BitLen(n) == BitsTo(n, Top(n, Len(n)))
IsZero(n) == Top(n, Len(n)) = 0
Reversed(n) == [i \in 1..Len(n) |-> n[Len(n) + 1 - i]]
Least(a, b) == IF a < b THEN a ELSE b
Greatest(a, b) == IF a > b THEN a ELSE b

\* n * 2^k and floor(n / 2^k)
Shl(n, k) ==
    [i \in 1..(k \div LimbBits) |-> 0] \o Row(n, 2 ^ (k % LimbBits))
Shr(n, k) ==
    LET w == k \div LimbBits
        p == 2 ^ (k % LimbBits)
    IN  [i \in 1..(IF Len(n) > w THEN Len(n) - w ELSE 0) |->
            At(n, i + w) \div p + (At(n, i + w + 1) % p) * (Limb \div p)]

\* short division by 0 < d < Limb: <<quotient, remainder>>
RECURSIVE ShortFrom(_, _, _, _)
ShortFrom(n, d, i, r) ==
    IF i = 0 THEN <<<<>>, r>>
    ELSE LET x == r * Limb + n[i]
             below == ShortFrom(n, d, i - 1, x % d)
         IN  <<Append(below[1], x \div d), below[2]>>
Short(n, d) == ShortFrom(n, d, Len(n), 0)

\* The largest digit q with q * b <= r, at most the estimate q0 whose
\* multiple of b is p: <<q, r - q * b>>
RECURSIVE Corrected(_, _, _, _)
Corrected(q0, p, r, b) ==
    IF Cmp(p, r) <= 0 THEN <<q0, SubSeq(Sub(r, p), 1, Len(b))>>
    ELSE Corrected(q0 - 1, Sub(p, b), r, b)
\* One digit of a long division: r < Limb * b has one limb more than b,
\* whose highest limb is at least Limb / 2, so that the two highest limbs
\* of r over the highest of b overestimate the digit by at most 2
Estimate(r, b, n) == (r[n + 1] * Limb + r[n]) \div b[n]
DigitFrom(q0, r, b) == Corrected(q0, Row(b, q0), r, b)
Digit(r, b) == DigitFrom(Least(Estimate(r, b, Len(b)), Limb - 1), r, b)
\* The limbs i..1 of a brought down to the rest r: <<limbs of the quotient
\* from the highest down, rest>>; d is the digit of limb i and what it
\* leaves
RECURSIVE LimbsDown(_, _, _, _)
Lead(q, below) == <<<<q>> \o below[1], below[2]>>
Below(a, b, i, d) == Lead(d[1], LimbsDown(a, b, i - 1, d[2]))
LimbsDown(a, b, i, r) ==
    IF i = 0 THEN <<<<>>, r>> ELSE Below(a, b, i, Digit(<<a[i]>> \o r, b))
\* floor(a / b) from the highest limb down and what is left, for b # 0:
\* both are shifted so that the highest limb of b, its limb top, is at
\* least Limb / 2
LongFrom(an, bn) == LimbsDown(an, bn, Len(an), [i \in 1..Len(bn) |-> 0])
LongShifted(a, b, top, shift) ==
    LongFrom(Shl(a, shift), SubSeq(Shl(b, shift), 1, top))
LongTo(a, b, top) == LongShifted(a, b, top, LimbBits - Bits(b[top]))
Long(a, b) == LongTo(a, b, Top(b, Len(b)))

\* The number n of 2^-(GridBits + extra) units, followed by further
\* non-zero places when sticky, rounded to DoubleBits significant bits and
\* to no less than 2^-GridBits units, ties to even: a number of
\* 2^-GridBits units.  drop is the number of bits n loses, q what is left
\* of it, c the sign of the lost bits less half a unit of q.
Remainder(n, q, drop) ==
    IF drop = 0 THEN -1 ELSE Cmp(Sub(n, Shl(q, drop)), Shl(<<1>>, drop - 1))
Nearest(q, c, sticky) ==
    IF c > 0 \/ (c = 0 /\ (sticky \/ At(q, 1) % 2 = 1)) THEN Add(q, <<1>>)
    ELSE q
RoundedAt(n, q, drop, extra, sticky) ==
    Shl(Nearest(q, Remainder(n, q, drop), sticky), drop - extra)
RoundedTo(n, drop, extra, sticky) ==
    RoundedAt(n, Shr(n, drop), drop, extra, sticky)
Rounded(n, extra, sticky) ==
    RoundedTo(n, Greatest(BitLen(n) - DoubleBits, extra), extra, sticky)

Sign(neg, d) == IF neg THEN Neg(d) ELSE d
WithSign(neg, n) == Sign(neg, OfLimbs(n))

\* k * n and n / d for a number n of 2^-GridBits units and an int
\* 0 < k, d < Limb; qr is <<quotient, remainder>> in 2^-(GridBits + 2)
\* units
TimesInt(n, k) == Rounded(Row(n, k), 0, FALSE)
ShortRounded(qr) == Rounded(qr[1], 2, qr[2] # 0)
OverInt(n, d) == ShortRounded(Short(Shl(n, 2), d))
LongRounded(qr) == Rounded(Reversed(qr[1]), 2, ~IsZero(qr[2]))

\* a + b, a - b, a * b and a / b (b # 0) of doubles, and a / d for an int
\* 0 < d < Limb.  SumOf is the exact sum of two signed magnitudes.
SumOf(na, x, nb, y) ==
    IF na = nb THEN <<na, Add(x, y)>>
    ELSE IF Cmp(x, y) >= 0 THEN <<na, Sub(x, y)>>
    ELSE <<nb, Sub(y, x)>>
Sum(s) == WithSign(s[1], Rounded(s[2], 0, FALSE))
DAdd(a, b) == Sum(SumOf(a[1] < 0, MagLimbs(a), b[1] < 0, MagLimbs(b)))
DSub(a, b) == DAdd(a, Neg(b))
DMul(a, b) ==
    WithSign((a[1] < 0) # (b[1] < 0),
             Rounded(BigMul(MagLimbs(a), MagLimbs(b)), GridBits, FALSE))
DDiv(a, b) ==
    WithSign((a[1] < 0) # (b[1] < 0),
             LongRounded(Long(Shl(MagLimbs(a), GridBits + 2), MagLimbs(b))))
DDivInt(a, d) == WithSign(a[1] < 0, OverInt(MagLimbs(a), d))

\* The double 1e-6 (truss.py:1075), 33.554432 ticks to 53 bits
Tolerance == <<33, 595316826, 1035051008>>

\* np.float32(d) of a double d (vertex.py:24-30): round to nearest on the
\* float32 grid, ties to even.  Beyond is the sign of what m >= 0 has
\* beyond a whole number of steps, less half a step.
Beyond(m, step) ==
    IF step = 1
    THEN (IF Less(<<0, Fine \div 2>>, <<0>> \o Tail(m)) THEN 1
          ELSE IF m[2] = Fine \div 2 THEN 0 ELSE -1)
    ELSE IF 2 * (m[1] % step) > step
            \/ (2 * (m[1] % step) = step /\ Tail(m) # <<0>>) THEN 1
    ELSE IF 2 * (m[1] % step) = step THEN 0 ELSE -1
ToEven(q, c) == IF c > 0 \/ (c = 0 /\ q % 2 = 1) THEN q + 1 ELSE q
SingleOf(m, step) == ToEven(m[1] \div step, Beyond(m, step)) * step
SingleAt(m) == SingleOf(m, Step(m[1]))
Single(d) == IF d[1] < 0 THEN -SingleAt(Neg(d)) ELSE SingleAt(d)

\* The double -(t + f) for the double t + f of <<t, pos>>, pos = 2 for f = 0
Signed(neg, r) ==
    IF r[2] = 2 THEN (IF neg THEN -r[1] ELSE r[1])
    ELSE IF neg THEN Held(-r[1] - 1, -r[2]) ELSE Held(r[1], r[2])

\* a * b for lengths a, b >= 0 below 16 units, as <<whole ticks, position of
\* the rest>>: a is split at 2^13 and b at 2^12 (2^13 * 2^12 ticks are a
\* unit), so that no product leaves 32 bits
ProductOf(a, b) ==
    LET ah   == a \div 8192
        al   == a % 8192
        bh   == b \div 4096
        bl   == b % 4096
        low  == al * bl
        mid  == 2 * ah * bl + al * bh + low \div 4096
        rest == mid % 8192
    IN  <<ah * bh + mid \div 8192,
          IF rest = 0 /\ low % 4096 = 0 THEN 2
          ELSE IF rest > 4096 \/ (rest = 4096 /\ low % 4096 # 0) THEN 1
          ELSE IF rest = 4096 THEN 0 ELSE -1>>
\* self.coordinates * other, one component (vertex.py:90)
Mul(a, b) == Signed((a < 0) # (b < 0), ProductOf(Abs(a), Abs(b)))

\* The binary places of r / b for 0 <= r < b, one for every halving of s
\* down to 1, after the places acc: <<places, rest>>
RECURSIVE Places(_, _, _, _)
Places(r, b, s, acc) ==
    IF s = 1 THEN <<acc, r>>
    ELSE IF 2 * r >= b THEN Places(2 * r - b, b, s \div 2, 2 * acc + 1)
    ELSE Places(2 * r, b, s \div 2, 2 * acc)
\* a / b for lengths a >= 0 and b > 0, as <<whole ticks, position of the
\* rest>>
QuotientOf(a, b) ==
    LET f == Places(a % b, b, Scale, 0)
    IN  <<(a \div b) * Scale + f[1],
          IF f[2] = 0 THEN 2
          ELSE IF 2 * f[2] > b THEN 1 ELSE IF 2 * f[2] = b THEN 0 ELSE -1>>
\* self.coordinates / other, one component (vertex.py:104)
Div(a, b) == Signed((a < 0) # (b < 0), QuotientOf(Abs(a), Abs(b)))

\* The largest whole number of ticks, made of the binary place `bit` and the
\* places below it added to m, whose square is at most s
RECURSIVE Root(_, _, _)
Root(s, m, bit) ==
    IF bit = 0 THEN m
    ELSE LET p == ProductOf(m + bit, m + bit)
         IN  IF p[1] < s \/ (p[1] = s /\ p[2] = 2)
             THEN Root(s, m + bit, bit \div 2)
             ELSE Root(s, m, bit \div 2)
\* np.sqrt(s) of a float32 s >= 0 below 64 square units: correctly rounded
Sqrt(s) ==
    LET m    == Root(s, 0, 4 * Scale)
        sq   == ProductOf(m, m)
        next == ProductOf(m, m + 1)
    IN  IF sq[1] = s /\ sq[2] = 2 THEN m
        ELSE Float32(Held(m, IF next[1] < s THEN 1 ELSE -1))

\* Optional values: <<>> is None, <<v>> is the value v
None == <<>>
Some(v) == <<v>>
IsNone(o) == Len(o) = 0
Val(o) == o[1]

(***************************************************************************)
(* Python sequence helpers                                                 *)
(***************************************************************************)
\* list(range(a, b))
Range(a, b) == [i \in 1..(IF b > a THEN b - a ELSE 0) |-> a + i - 1]

\* zip(a, b) as a list of pairs
Zip(a, b) ==
    LET n == IF Len(a) < Len(b) THEN Len(a) ELSE Len(b)
    IN  [i \in 1..n |-> <<a[i], b[i]>>]

Clamp(i, lo, hi) == IF i < lo THEN lo ELSE IF i > hi THEN hi ELSE i

\* s[start:stop] with Python's index normalisation (0-based, None = <<>>)
PySlice(s, start, stop) ==
    LET n  == Len(s)
        a0 == IF IsNone(start) THEN 0
              ELSE IF Val(start) < 0 THEN Val(start) + n ELSE Val(start)
        b0 == IF IsNone(stop) THEN n
              ELSE IF Val(stop) < 0 THEN Val(stop) + n ELSE Val(stop)
        a  == Clamp(a0, 0, n)
        b  == Clamp(b0, 0, n)
    IN  [i \in 1..(IF b > a THEN b - a ELSE 0) |-> s[a + i]]

\* s[start:stop:-1] with Python's index normalisation
PySliceRev(s, start, stop) ==
    LET n  == Len(s)
        a0 == IF IsNone(start) THEN n - 1
              ELSE IF Val(start) < 0 THEN Val(start) + n ELSE Val(start)
        b0 == IF IsNone(stop) THEN -1
              ELSE IF Val(stop) < 0 THEN Val(stop) + n ELSE Val(stop)
        a  == Clamp(a0, -1, n - 1)
        b  == Clamp(b0, -1, n - 1)
    IN  [i \in 1..(IF a > b THEN a - b ELSE 0) |-> s[a - i + 2]]

SeqMax(s) == CHOOSE m \in {s[i] : i \in 1..Len(s)} :
                 \A j \in 1..Len(s) : s[j] <= m
SeqMin(s) == CHOOSE m \in {s[i] : i \in 1..Len(s)} :
                 \A j \in 1..Len(s) : s[j] >= m
SeqSet(s) == {s[i] : i \in 1..Len(s)}

(***************************************************************************)
(* Trigonometry on the enumerated pitches (hundredths of a degree): the    *)
(* doubles np.tan, np.cos and np.sin return for np.radians of the pitch,   *)
(* e.g. np.tan(np.radians(36.87)) = 0.7500027912803411.  36.87 and 53.13   *)
(* degrees are the 3-4-5 triangle's angles rounded to two decimals, 143.13 *)
(* = 180 - 36.87 and -36.87 are the out-of-range pitches with a finite     *)
(* tangent, 0 the one with tangent exactly 0, and 90 the boundary (never   *)
(* passed to Tan: see InitArgs).                                           *)
(***************************************************************************)
Tan(p) == CASE p = 3687  -> <<25165917, 708483200>>
            [] p = 5313  -> <<44739076, 172795448>>
            [] p = -3687 -> <<-25165918, 365258624>>
            [] p = 14313 -> <<-25165918, 365258616>>
            [] p = 0     -> <<0, 0>>
Cos(p) == CASE p = 3687  -> <<26843509, 681430940>>
            [] p = 5313  -> <<20132707, 165071424>>
Sin(p) == CASE p = 3687  -> <<20132707, 165071424>>
            [] p = 5313  -> <<26843509, 681430940>>
\* the results of a double division by zero (truss.py:1071)
NaN == "nan"
Inf == "inf"

(***************************************************************************)
(* The catalogue of topologies (truss.py:1261-1277)                        *)
(***************************************************************************)
HoweOrPratt == {"HoweFlatTruss", "PrattFlatTruss"}
FlatClasses == HoweOrPratt \cup {"WarrenFlatTruss"}
PlainRoofClasses ==
    {"KingPostRoofTruss", "QueenPostRoofTruss", "FinkRoofTruss",
     "HoweRoofTruss", "PrattRoofTruss", "FanRoofTruss",
     "ModifiedQueenPostRoofTruss", "DoubleFinkRoofTruss",
     "DoubleHoweRoofTruss", "ModifiedFanRoofTruss"}
RoofClasses == PlainRoofClasses \cup {"AtticRoofTruss"}
Classes == FlatClasses \cup RoofClasses

(***************************************************************************)
(* Bounds and the constructor arguments the model enumerates               *)
(***************************************************************************)
\* largest flat span (length units) of the contiguous range 5..MaxSpan
MaxSpan == 8
\* how many instances of one topology are constructed side by side
Inst == {1, 2}

EndTypes == {"flat", "triangle_down", "triangle_up"}
SupportLocs == {"bottom_chord", "top_chord", "both"}

FlatSpans == {-5 * Scale, 0} \cup {w * Scale : w \in 5..MaxSpan}
                 \cup {19 * Scale, 20 * Scale}
FlatHeights == {-Scale, 0, Scale}
UnitWidths == {-Scale, 0, 2 * Scale, 20 * Scale}
\* min_end_fraction: 0.0, 0.25, 0.5 (the default), 1.0 and 1.5
Half == Double(Scale \div 2)
One == Double(Scale)
EndFractions ==
    {Double(0), Double(Scale \div 4), Half, One, Double(3 * (Scale \div 2))}
\* Spans 3.28125 and 3.0, panel widths 1.5625 and 1.25 and the doubles 0.55
\* and 0.2 as min_end_fraction: the unit counts they give are at or next
\* to a whole number (0.9999999999999999, 2.0) or between two (1.525,
\* 2.225)
BoundarySpans == {105 * (Scale \div 32), 3 * Scale}
BoundaryUnitWidths == {25 * (Scale \div 16), 5 * (Scale \div 4)}
BoundaryFractions == {<<18454937, 644245096>>, <<6710886, 429496730>>}

RoofSpans == {-5 * Scale, 0, 12 * Scale}
Pitches == {-3687, 0, 3687, 5313, 9000, 14313}
Overhangs == {-(Scale \div 2), 0, Scale \div 2}
AtticWidths == {0, 4 * Scale, 12 * Scale}

\* wall_x, wall_y and the ridge height of an attic truss with these
\* arguments (truss.py:1052-1066)
WallX(w, aw) == DSub(DDivInt(Double(w), 2), DDivInt(Double(aw), 2))
WallY(w, p, aw) == DMul(WallX(w, aw), Tan(p))
PeakY(w, p) == DMul(DDivInt(Double(w), 2), Tan(p))
ThreeQuarters(d) == DDivInt(DAdd(d, DAdd(d, d)), 4)
\* The attic heights given: none; a unit below the wall height; the wall
\* and ridge heights a tangent of exactly 3/4 would give; a whole number of
\* ticks about the tolerance and half the tolerance below the wall height
\* and half the tolerance above it; the double wall_y itself; a height
\* between wall and ridge; the ridge height itself; a unit above it
AtticHeights(w, p, aw) ==
    LET wall == WallY(w, p, aw)
        peak == PeakY(w, p)
    IN  {None, Some(Double(wall[1] - Scale)),
         Some(ThreeQuarters(WallX(w, aw))),
         Some(ThreeQuarters(DDivInt(Double(w), 2))),
         Some(Double(wall[1] - (tolerance - 1))),
         Some(Double(wall[1] - (tolerance \div 2))),
         Some(wall),
         Some(Double(wall[1] + (tolerance \div 2))),
         Some(Double((wall[1] + peak[1]) \div 2)),
         Some(peak),
         Some(Double(peak[1] + Scale))}

\* Howe and Pratt: every combination of the numeric arguments with the
\* default end type and support location, and every end type and support
\* location with the numeric arguments that pass the checks
FlatGeometryArgs ==
    [cls : HoweOrPratt, width : FlatSpans, height : FlatHeights,
     unit_width : UnitWidths, end_type : {"triangle_down"},
     supports_loc : {"bottom_chord"}, min_end_fraction : EndFractions,
     enforce_even_units : BOOLEAN, roof_pitch_deg : {0},
     overhang_length : {0}, attic_width : {0}, attic_height : {None}]
FlatLayoutArgs ==
    [cls : HoweOrPratt, width : {w \in FlatSpans : w > 0}, height : {Scale},
     unit_width : {2 * Scale}, end_type : EndTypes,
     supports_loc : SupportLocs, min_end_fraction : {Half},
     enforce_even_units : BOOLEAN, roof_pitch_deg : {0},
     overhang_length : {0}, attic_width : {0}, attic_height : {None}]
FlatBoundaryArgs ==
    [cls : HoweOrPratt, width : BoundarySpans, height : {Scale},
     unit_width : BoundaryUnitWidths, end_type : {"triangle_down"},
     supports_loc : {"bottom_chord"}, min_end_fraction : BoundaryFractions,
     enforce_even_units : BOOLEAN, roof_pitch_deg : {0},
     overhang_length : {0}, attic_width : {0}, attic_height : {None}]
FlatArgs == FlatGeometryArgs \cup FlatLayoutArgs \cup FlatBoundaryArgs
\* WarrenFlatTruss.__init__ takes no min_end_fraction / enforce_even_units
WarrenGeometryArgs ==
    [cls : {"WarrenFlatTruss"}, width : FlatSpans, height : FlatHeights,
     unit_width : UnitWidths, end_type : {"triangle_down"},
     supports_loc : {"bottom_chord"}, min_end_fraction : {Half},
     enforce_even_units : {TRUE}, roof_pitch_deg : {0},
     overhang_length : {0}, attic_width : {0}, attic_height : {None}]
WarrenLayoutArgs ==
    [cls : {"WarrenFlatTruss"}, width : {w \in FlatSpans : w > 0},
     height : {Scale}, unit_width : {2 * Scale}, end_type : EndTypes,
     supports_loc : SupportLocs, min_end_fraction : {Half},
     enforce_even_units : {TRUE}, roof_pitch_deg : {0},
     overhang_length : {0}, attic_width : {0}, attic_height : {None}]
WarrenArgs == WarrenGeometryArgs \cup WarrenLayoutArgs
RoofArgs ==
    [cls : PlainRoofClasses, width : RoofSpans, height : {0},
     unit_width : {0}, end_type : {"flat"}, supports_loc : {"bottom_chord"},
     min_end_fraction : {Half}, enforce_even_units : {TRUE},
     roof_pitch_deg : Pitches, overhang_length : Overhangs,
     attic_width : {0}, attic_height : {None}]
AtticArg(w, p, o, aw, ah) ==
    [cls |-> "AtticRoofTruss", width |-> w, height |-> 0, unit_width |-> 0,
     end_type |-> "flat", supports_loc |-> "bottom_chord",
     min_end_fraction |-> Half, enforce_even_units |-> TRUE,
     roof_pitch_deg |-> p, overhang_length |-> o, attic_width |-> aw,
     attic_height |-> ah]
AtticArgs ==
    UNION {{AtticArg(x[1], x[2], o, x[3], ah) :
                o \in Overhangs, ah \in AtticHeights(x[1], x[2], x[3])} :
           x \in RoofSpans \X (Pitches \ {9000}) \X AtticWidths}
InitArgs == FlatArgs \cup WarrenArgs \cup RoofArgs \cup AtticArgs

(***************************************************************************)
(* State                                                                   *)
(***************************************************************************)
VARIABLES
    args,    \* the constructor arguments given to both instances
    pc,      \* per instance: the step of construction it is at
    frame,   \* per instance: the arguments of the __init__ being executed
    self,    \* per instance: its attributes (containers as heap indices)
    heap,    \* the cells of all mutable containers
    system,  \* per instance: the SystemElements it owns
    err,     \* per instance: the category of the error raised, or "none"
    calls,   \* per instance: the lifecycle methods executed so far
    vres,    \* per instance: the outcome of the last validate() call
    truss_type,  \* per instance: the name given to create_truss, or <<>>
    ret,         \* per instance: the outcome of the last chord operation
    loadcases,   \* the LoadCase objects created so far
    combination, \* the spec of the LoadCombination: name, case, factor
    results,     \* what LoadCombination.solve returned, or <<>>
    vertices,    \* the coordinates of the Vertex objects created so far
    expr         \* the last Vertex expression evaluated

\* The state only the operations on a constructed truss and the load
\* combination change
usage == <<truss_type, ret, loadcases, combination, results, vertices, expr>>
vars == <<args, pc, frame, self, heap, system, err, calls, vres, truss_type,
          ret, loadcases, combination, results, vertices, expr>>

\* DEFAULT_TRUSS_SECTION (truss_class.py:11-15): a module-level dict, the
\* first cell of the heap
DEFAULT_TRUSS_SECTION == 1
DefaultSectionCell == [EI |-> 1000000, EA |-> 100000000, g |-> 0]

\* An instance before any attribute is assigned
BlankSelf(cls) ==
    [cls |-> cls, width |-> 0, height |-> Double(0),
     top_chord_section |-> 0, bottom_chord_section |-> 0,
     web_section |-> 0, web_verticals_section |-> 0,
     top_chord_continuous |-> FALSE, bottom_chord_continuous |-> FALSE,
     supports_type |-> "",
     nodes |-> 0, top_chord_node_ids |-> 0, bottom_chord_node_ids |-> 0,
     web_node_pairs |-> 0, web_verticals_node_pairs |-> 0,
     support_definitions |-> 0,
     top_chord_element_ids |-> 0, bottom_chord_element_ids |-> 0,
     web_element_ids |-> 0, web_verticals_element_ids |-> 0,
     unit_width |-> 0, end_type |-> "", supports_loc |-> "",
     min_end_fraction |-> Double(0), enforce_even_units |-> FALSE,
     n_units |-> 0, end_width |-> Double(0),
     overhang_length |-> 0, roof_pitch_deg |-> 0, roof_pitch |-> 0,
     attic_width |-> 0, attic_height |-> Double(0),
     wall_x |-> Double(0), wall_y |-> Double(0), ceiling_y |-> Double(0),
     ceiling_x |-> Double(0),
     wall_ceiling_intersect |-> FALSE]

\* Load factors are counted in halves: 2 is the factor 1.0, 1 the factor
\* 0.5
Halves == 2
\* SystemElements before it is created (self.system unset)
NoSystem == [created |-> FALSE, node_map |-> <<>>, element_map |-> <<>>,
             supports |-> <<>>, loads |-> <<>>, load_factor |-> Halves]

\* The arguments Truss.__init__ takes that no concrete constructor passes:
\* their defaults (truss_class.py:85-87); the height is read as a double
BlankFrame(a) ==
    [width |-> a.width, height |-> Double(a.height),
     unit_width |-> a.unit_width,
     end_type |-> a.end_type, supports_loc |-> a.supports_loc,
     min_end_fraction |-> a.min_end_fraction,
     enforce_even_units |-> a.enforce_even_units,
     roof_pitch_deg |-> a.roof_pitch_deg,
     overhang_length |-> a.overhang_length,
     attic_width |-> a.attic_width, attic_height |-> a.attic_height,
     top_chord_section |-> None, bottom_chord_section |-> None,
     web_section |-> None, web_verticals_section |-> None,
     top_chord_continuous |-> TRUE, bottom_chord_continuous |-> TRUE,
     supports_type |-> "simple"]

\* No chord operation has returned yet.  Otherwise: the method called, its
\* arguments, the list returned or the error raised with the segment names
\* it lists, and the number of load requests the model held before the call
NoReturn == [call |-> "none", chord |-> "", chord_segment |-> None,
             given |-> "", value |-> <<>>, err |-> "none",
             available |-> <<>>, base |-> 0]

\* No Vertex expression evaluated yet
NoExpr ==
    [op |-> "none", self |-> 0, other |-> <<>>, out |-> 0, raised |-> "",
     count |-> 0]

\* The state before any call, for the arguments `args`
Start ==
    /\ pc = [t \in Inst |-> "idle"]
    /\ frame = [t \in Inst |-> BlankFrame(args)]
    /\ self = [t \in Inst |-> BlankSelf(args.cls)]
    /\ heap = <<DefaultSectionCell>>
    /\ system = [t \in Inst |-> NoSystem]
    /\ err = [t \in Inst |-> "none"]
    /\ calls = [t \in Inst |-> <<>>]
    /\ vres = [t \in Inst |-> "none"]
    /\ ret = [t \in Inst |-> NoReturn]
    /\ loadcases = <<>>
    /\ combination = <<>>
    /\ results = <<>>
    /\ vertices = <<>>
    /\ expr = NoExpr

Init ==
    /\ args \in InitArgs
    /\ truss_type = [t \in Inst |-> <<>>]
    /\ Start

(***************************************************************************)
(* Constructors: each __init__ is a function from the instance and the     *)
(* arguments to the instance after it and the error raised ("none" when    *)
(* it runs to its super().__init__ call).                                  *)
(***************************************************************************)
Raise(s, e) == [self |-> s, err |-> e]
Return(s) == [self |-> s, err |-> "none"]

\* 0 < min_end_fraction <= 1 (truss_class.py:623)
FractionInRange(f) == Less(Double(0), f) /\ ~Less(One, f)

\* n_units_float = (width - unit_width * 2 * min_end_fraction) / unit_width
\* (truss_class.py:635), a double; unit_width > 0
NUnitsFloat(width, unit_width, f) ==
    DDiv(DSub(Double(width),
              DMul(DMul(Double(unit_width), Double(2 * Scale)), f)),
         Double(unit_width))

\* int(np.floor(d)) of a double d (truss_class.py:642): d[1] is d rounded
\* down to ticks and \div rounds down
Floor(d) == d[1] \div Scale

\* NUnits without the symmetry adjustment of line 643-644 (faulty variant)
NUnitsNoAdjust(width, unit_width, f, enforce_even_units) ==
    Floor(NUnitsFloat(width, unit_width, f))

\* the n_units of FlatTruss.__init__ after the symmetry adjustment
\* (truss_class.py:642-644)
NUnits(width, unit_width, f, enforce_even_units) ==
    LET n == Floor(NUnitsFloat(width, unit_width, f))
    IN  IF enforce_even_units /\ n % 2 # 0 THEN n - 1 ELSE n

\* (width - n_units * unit_width) / 2 (truss_class.py:652)
EndWidth(width, n_units, unit_width) ==
    DDivInt(Double(width - n_units * unit_width), 2)

\* FlatTruss.__init__ without the n_units_float < 1 check of lines 636-640
\* (faulty variant)
FlatTrussInitNoRatioCheck(s, a) ==
    IF a.unit_width <= 0 THEN Raise(s, "unit_width must be positive")
    ELSE IF ~FractionInRange(a.min_end_fraction)
    THEN Raise(s, "min_end_fraction must be in (0, 1]")
    ELSE
      LET n  == NUnits(a.width, a.unit_width, a.min_end_fraction,
                       a.enforce_even_units)
          s2 == [s EXCEPT !.unit_width = a.unit_width,
                          !.end_type = a.end_type,
                          !.supports_loc = a.supports_loc,
                          !.min_end_fraction = a.min_end_fraction,
                          !.enforce_even_units = a.enforce_even_units,
                          !.n_units = n]
      IN  IF n < 2 THEN Raise(s2, "must have at least 2 units")
          ELSE Return([s2 EXCEPT !.end_width =
                          EndWidth(a.width, n, a.unit_width)])

\* FlatTruss.__init__ up to its super().__init__ call (truss_class.py:621-652)
FlatTrussInit(s, a) ==
    IF a.unit_width <= 0 THEN Raise(s, "unit_width must be positive")
    ELSE IF ~FractionInRange(a.min_end_fraction)
    THEN Raise(s, "min_end_fraction must be in (0, 1]")
    ELSE
      LET s1 == [s EXCEPT !.unit_width = a.unit_width,
                          !.end_type = a.end_type,
                          !.supports_loc = a.supports_loc,
                          !.min_end_fraction = a.min_end_fraction,
                          !.enforce_even_units = a.enforce_even_units]
          q  == NUnitsFloat(a.width, a.unit_width, a.min_end_fraction)
          n  == NUnits(a.width, a.unit_width, a.min_end_fraction,
                       a.enforce_even_units)
          s2 == [s1 EXCEPT !.n_units = n]
      IN  IF Less(q, One) THEN Raise(s1, "width is too small for unit_width")
          ELSE IF n < 2 THEN Raise(s2, "must have at least 2 units")
          ELSE Return([s2 EXCEPT !.end_width =
                          EndWidth(a.width, n, a.unit_width)])

\* WarrenFlatTruss.__init__ before super().__init__ (truss.py:240-254): the
\* arguments it passes on
WarrenFrame(a) ==
    [a EXCEPT !.min_end_fraction = Half, !.enforce_even_units = TRUE]

\* WarrenFlatTruss.__init__ after super().__init__ returned (truss.py:255)
WarrenEndWidth(width, n_units, unit_width) ==
    DAdd(DDivInt(Double(width - n_units * unit_width), 2),
         DDivInt(Double(unit_width), 2))

\* RoofTruss.__init__ up to its super().__init__ call (truss_class.py:749-761)
RoofHeight(width, p) == DMul(DDivInt(Double(width), 2), Tan(p))
RoofTrussInit(s, a) ==
    IF a.roof_pitch_deg <= 0 \/ a.roof_pitch_deg >= 9000
    THEN Raise(s, "roof_pitch_deg must be between 0 and 90")
    ELSE IF a.overhang_length < 0
    THEN Raise(s, "overhang_length must be non-negative")
    ELSE Return([s EXCEPT !.roof_pitch_deg = a.roof_pitch_deg,
                          !.roof_pitch = a.roof_pitch_deg,
                          !.overhang_length = a.overhang_length])

\* AtticRoofTruss.__init__ up to its super().__init__ call
\* (truss.py:1039-1093).  With tan = 0 the division at line 1071 yields
\* inf, -inf or nan (a numpy warning, no exception): ceiling_x is then
\* -inf, inf or nan, -inf being left of the wall.  ceiling_y == wall_y
\* (line 1093) compares the doubles.
AtticRoofTrussInit(s, a) ==
    IF a.attic_width <= 0 THEN Raise(s, "attic_width must be positive")
    ELSE IF a.attic_width >= a.width
    THEN Raise(s, "attic_width must be less than truss width")
    ELSE
      LET s1 == [s EXCEPT !.attic_width = a.attic_width]
          tn == Tan(a.roof_pitch_deg)
          half == DDivInt(Double(a.width), 2)
          wall_x == DSub(half, DDivInt(Double(a.attic_width), 2))
          wall_y == DMul(wall_x, tn)
          ceiling_y == IF IsNone(a.attic_height) THEN wall_y
                       ELSE Val(a.attic_height)
          peak_height == DMul(half, tn)
          rise == DSub(peak_height, ceiling_y)
          finite == tn # Double(0)
          ceiling_x == IF finite THEN DSub(half, DDiv(rise, tn))
                       ELSE IF rise = Double(0) THEN NaN ELSE Inf
          left_of_wall == IF finite
                          THEN Less(ceiling_x, DSub(wall_x, Tolerance))
                          ELSE Less(Double(0), rise)
      IN  IF Less(ceiling_y, DSub(wall_y, Tolerance)) \/ left_of_wall
          THEN Raise(s1, "attic height is too low")
          ELSE Return([s1 EXCEPT !.attic_height = ceiling_y,
                                 !.wall_x = wall_x, !.wall_y = wall_y,
                                 !.ceiling_y = ceiling_y,
                                 !.ceiling_x = ceiling_x,
                                 !.wall_ceiling_intersect =
                                     (ceiling_y = wall_y)])

\* `x or default` for an Optional[SectionProps] argument
\* (truss_class.py:120-123)
SectionOr(opt, default) == IF IsNone(opt) THEN default ELSE Val(opt)

\* The cell index of the k-th container allocated on heap h
NewCell(h, k) == Len(h) + k

\* The attribute assignments of Truss.__init__, the four containers being
\* the cells c[1..4] of heap h
TrussAttributes(s, a, c) ==
    LET web == SectionOr(a.web_section, DEFAULT_TRUSS_SECTION)
    IN  [s EXCEPT
            !.width = a.width,
            !.height = a.height,
            !.top_chord_section =
                SectionOr(a.top_chord_section, DEFAULT_TRUSS_SECTION),
            !.bottom_chord_section =
                SectionOr(a.bottom_chord_section, DEFAULT_TRUSS_SECTION),
            !.web_section = web,
            !.web_verticals_section = SectionOr(a.web_verticals_section, web),
            !.top_chord_continuous = a.top_chord_continuous,
            !.bottom_chord_continuous = a.bottom_chord_continuous,
            !.supports_type = a.supports_type,
            !.nodes = c[1],
            !.web_node_pairs = c[2],
            !.web_verticals_node_pairs = c[3],
            !.support_definitions = c[4]]

\* Truss.__init__ without the checks of lines 113-116 (faulty variant)
TrussInitUnchecked(s, a, h) ==
    [self |-> TrussAttributes(s, a, [k \in 1..4 |-> NewCell(h, k)]),
     heap |-> h \o << <<>>, <<>>, <<>>, <<>> >>,
     err |-> "none"]

\* Truss.__init__ with the containers as class attributes: the instances
\* after the first reuse the first one's lists (faulty variant)
TrussInitSharedContainers(s, a, h) ==
    IF a.width <= 0 THEN [self |-> s, heap |-> h,
                          err |-> "width must be positive"]
    ELSE IF ~Less(Double(0), a.height) THEN [self |-> s, heap |-> h,
                                err |-> "height must be positive"]
    ELSE IF Len(h) > DEFAULT_TRUSS_SECTION
    THEN [self |-> TrussAttributes(s, a, [k \in 1..4 |->
                                             DEFAULT_TRUSS_SECTION + k]),
          heap |-> h, err |-> "none"]
    ELSE [self |-> TrussAttributes(s, a, [k \in 1..4 |-> NewCell(h, k)]),
          heap |-> h \o << <<>>, <<>>, <<>>, <<>> >>,
          err |-> "none"]

\* Truss.__init__ up to its define_nodes() call (truss_class.py:113-134):
\* the instance, the heap with the four fresh containers, and the error
TrussInit(s, a, h) ==
    IF a.width <= 0 THEN [self |-> s, heap |-> h,
                          err |-> "width must be positive"]
    ELSE IF ~Less(Double(0), a.height) THEN [self |-> s, heap |-> h,
                                err |-> "height must be positive"]
    ELSE [self |-> TrussAttributes(s, a, [k \in 1..4 |-> NewCell(h, k)]),
          heap |-> h \o << <<>>, <<>>, <<>>, <<>> >>,
          err |-> "none"]

(***************************************************************************)
(* define_nodes: the Vertex list each topology appends to self.nodes       *)
(***************************************************************************)
\* Vertex(x, y): the coordinates are stored as float32 (vertex.py:24-30),
\* of whole numbers of ticks x, y and of doubles x, y
V(x, y) == <<Float32(x), Float32(y)>>
Vertex(x, y) == <<Single(x), Single(y)>>

\* x = end_width + i * unit_width for i in range(n_units + 1)
PanelNodes(s, y) ==
    [k \in 1..(s.n_units + 1) |->
        Vertex(DAdd(s.end_width, Double((k - 1) * s.unit_width)), y)]

\* HoweFlatTruss.define_nodes / PrattFlatTruss.define_nodes
\* (truss.py:21-38, 115-132)
HoweFlatNodes(s) ==
    LET w == Double(s.width)
        o == Double(0)
    IN  (IF s.end_type # "triangle_up" THEN <<Vertex(o, o)>> ELSE <<>>)
        \o PanelNodes(s, o)
        \o (IF s.end_type # "triangle_up" THEN <<Vertex(w, o)>> ELSE <<>>)
        \o (IF s.end_type # "triangle_down" THEN <<Vertex(o, s.height)>>
            ELSE <<>>)
        \o PanelNodes(s, s.height)
        \o (IF s.end_type # "triangle_down" THEN <<Vertex(w, s.height)>>
            ELSE <<>>)

\* WarrenFlatTruss.define_nodes (truss.py:257-286)
WarrenFlatNodes(s) ==
    LET inset == DSub(s.end_width, DDivInt(Double(s.unit_width), 2))
        far   == DSub(Double(s.width), inset)
        w     == Double(s.width)
        o     == Double(0)
    IN  (IF s.end_type = "triangle_down" THEN <<Vertex(o, o)>>
         ELSE <<Vertex(inset, o)>>)
        \o PanelNodes(s, o)
        \o (IF s.end_type = "triangle_down" THEN <<Vertex(w, o)>>
            ELSE <<Vertex(far, o)>>)
        \o (IF s.end_type = "triangle_up" THEN <<Vertex(o, s.height)>>
            ELSE <<Vertex(inset, s.height)>>)
        \o PanelNodes(s, s.height)
        \o (IF s.end_type = "triangle_up" THEN <<Vertex(w, s.height)>>
            ELSE <<Vertex(far, s.height)>>)

\* The two overhang nodes every roof topology appends when
\* overhang_length > 0 (truss.py:340-352 and alike)
OverhangNodes(s) ==
    IF s.overhang_length > 0
    THEN LET dx == DMul(Double(s.overhang_length), Cos(s.roof_pitch))
             dy == DMul(Double(s.overhang_length), Sin(s.roof_pitch))
         IN  <<Vertex(Neg(dx), Neg(dy)),
               Vertex(DAdd(Double(s.width), dx), Neg(dy))>>
    ELSE <<>>

\* k * value / d of a double value and ints 0 < k, d < Limb: the product is
\* rounded, then the quotient
Frac(k, value, d) ==
    WithSign(value[1] < 0, OverInt(TimesInt(MagLimbs(value), k), d))

\* define_nodes of the ten plain roof topologies, without the overhang
RoofBaseNodes(s) ==
    LET w == Double(s.width)
        h == s.height
        o == Double(0)
    IN CASE s.cls = "KingPostRoofTruss" ->                  \* truss.py:330-338
            <<Vertex(o, o), Vertex(Frac(1, w, 2), o), Vertex(w, o),
              Vertex(Frac(1, w, 2), h)>>
       [] s.cls = "QueenPostRoofTruss" ->                   \* truss.py:382-391
            <<Vertex(o, o), Vertex(Frac(1, w, 2), o), Vertex(w, o),
              Vertex(Frac(1, w, 4), Frac(1, h, 2)), Vertex(Frac(1, w, 2), h),
              Vertex(Frac(3, w, 4), Frac(1, h, 2))>>
       [] s.cls = "FinkRoofTruss" ->                        \* truss.py:446-457
            <<Vertex(o, o), Vertex(Frac(1, w, 3), o),
              Vertex(Frac(2, w, 3), o), Vertex(w, o),
              Vertex(Frac(1, w, 4), Frac(1, h, 2)), Vertex(Frac(1, w, 2), h),
              Vertex(Frac(3, w, 4), Frac(1, h, 2))>>
       [] s.cls \in {"HoweRoofTruss", "PrattRoofTruss"} ->
                                              \* truss.py:504-516, 566-578
            <<Vertex(o, o), Vertex(Frac(1, w, 4), o),
              Vertex(Frac(1, w, 2), o), Vertex(Frac(3, w, 4), o),
              Vertex(w, o), Vertex(Frac(1, w, 4), Frac(1, h, 2)),
              Vertex(Frac(1, w, 2), h), Vertex(Frac(3, w, 4), Frac(1, h, 2))>>
       [] s.cls = "FanRoofTruss" ->                         \* truss.py:628-641
            <<Vertex(o, o), Vertex(Frac(1, w, 3), o),
              Vertex(Frac(2, w, 3), o), Vertex(w, o),
              Vertex(Frac(1, w, 6), Frac(1, h, 3)),
              Vertex(Frac(2, w, 6), Frac(2, h, 3)), Vertex(Frac(1, w, 2), h),
              Vertex(Frac(4, w, 6), Frac(2, h, 3)),
              Vertex(Frac(5, w, 6), Frac(1, h, 3))>>
       [] s.cls = "ModifiedQueenPostRoofTruss" ->           \* truss.py:695-709
            <<Vertex(o, o), Vertex(Frac(1, w, 4), o),
              Vertex(Frac(1, w, 2), o), Vertex(Frac(3, w, 4), o),
              Vertex(w, o), Vertex(Frac(1, w, 6), Frac(1, h, 3)),
              Vertex(Frac(2, w, 6), Frac(2, h, 3)), Vertex(Frac(1, w, 2), h),
              Vertex(Frac(4, w, 6), Frac(2, h, 3)),
              Vertex(Frac(5, w, 6), Frac(1, h, 3))>>
       [] s.cls = "DoubleFinkRoofTruss" ->                  \* truss.py:764-779
            <<Vertex(o, o), Vertex(Frac(1, w, 5), o),
              Vertex(Frac(2, w, 5), o), Vertex(Frac(3, w, 5), o),
              Vertex(Frac(4, w, 5), o), Vertex(w, o),
              Vertex(Frac(1, w, 6), Frac(1, h, 3)),
              Vertex(Frac(2, w, 6), Frac(2, h, 3)), Vertex(Frac(1, w, 2), h),
              Vertex(Frac(4, w, 6), Frac(2, h, 3)),
              Vertex(Frac(5, w, 6), Frac(1, h, 3))>>
       [] s.cls = "DoubleHoweRoofTruss" ->                  \* truss.py:833-849
            <<Vertex(o, o), Vertex(Frac(1, w, 6), o),
              Vertex(Frac(2, w, 6), o), Vertex(Frac(1, w, 2), o),
              Vertex(Frac(4, w, 6), o), Vertex(Frac(5, w, 6), o),
              Vertex(w, o), Vertex(Frac(1, w, 6), Frac(1, h, 3)),
              Vertex(Frac(2, w, 6), Frac(2, h, 3)), Vertex(Frac(1, w, 2), h),
              Vertex(Frac(4, w, 6), Frac(2, h, 3)),
              Vertex(Frac(5, w, 6), Frac(1, h, 3))>>
       [] s.cls = "ModifiedFanRoofTruss" ->                 \* truss.py:906-922
            <<Vertex(o, o), Vertex(Frac(1, w, 4), o),
              Vertex(Frac(1, w, 2), o), Vertex(Frac(3, w, 4), o),
              Vertex(w, o), Vertex(Frac(1, w, 8), Frac(1, h, 4)),
              Vertex(Frac(2, w, 8), Frac(2, h, 4)),
              Vertex(Frac(3, w, 8), Frac(3, h, 4)), Vertex(Frac(1, w, 2), h),
              Vertex(Frac(5, w, 8), Frac(3, h, 4)),
              Vertex(Frac(6, w, 8), Frac(2, h, 4)),
              Vertex(Frac(7, w, 8), Frac(1, h, 4))>>

\* AtticRoofTruss.define_nodes without the overhang (truss.py:1106-1126)
AtticBaseNodes(s) ==
    LET w    == Double(s.width)
        o    == Double(0)
        left == Vertex(Frac(1, s.wall_x, 2), Frac(1, s.wall_y, 2))
    IN  <<Vertex(o, o), Vertex(s.wall_x, o), Vertex(DSub(w, s.wall_x), o),
          Vertex(w, o), left, Vertex(s.wall_x, s.wall_y)>>
        \o (IF ~s.wall_ceiling_intersect
            THEN <<Vertex(s.ceiling_x, s.ceiling_y)>> ELSE <<>>)
        \o <<Vertex(Frac(1, w, 2), s.height)>>
        \o (IF ~s.wall_ceiling_intersect
            THEN <<Vertex(DSub(w, s.ceiling_x), s.ceiling_y)>> ELSE <<>>)
        \o <<Vertex(DSub(w, s.wall_x), s.wall_y),
             Vertex(DSub(w, Frac(1, s.wall_x, 2)), Frac(1, s.wall_y, 2)),
             Vertex(Frac(1, w, 2), s.ceiling_y)>>

\* define_nodes, dispatched on the class of the instance
DefineNodes(s) ==
    IF s.cls \in HoweOrPratt THEN HoweFlatNodes(s)
    ELSE IF s.cls = "WarrenFlatTruss" THEN WarrenFlatNodes(s)
    ELSE IF s.cls = "AtticRoofTruss" THEN AtticBaseNodes(s) \o OverhangNodes(s)
    ELSE RoofBaseNodes(s) \o OverhangNodes(s)

(***************************************************************************)
(* define_connectivity.  A chord is a flat list of node ids or a dict from *)
(* segment name to such a list; a chord cell records which, the segment    *)
(* names in insertion order, and the lists.                                *)
(***************************************************************************)
ListChord(ids) == [segmented |-> FALSE, names |-> <<>>, ids |-> <<ids>>]
DictChord(names, lists) ==
    [segmented |-> TRUE, names |-> names, ids |-> lists]

Conn(bottom, top, web, verticals) ==
    [bottom |-> bottom, top |-> top, web |-> web, verticals |-> verticals]

\* n_bottom_nodes / n_top_nodes of Howe and Pratt (truss.py:41-46, 135-140)
NBottomNodes(s) ==
    s.n_units + 1 + (IF s.end_type # "triangle_up" THEN 2 ELSE 0)
\* n_top_nodes one too many (faulty variant)
NTopNodesOffByOne(s) ==
    s.n_units + 2 + (IF s.end_type # "triangle_down" THEN 2 ELSE 0)
NTopNodes(s) ==
    s.n_units + 1 + (IF s.end_type # "triangle_down" THEN 2 ELSE 0)

\* The second loop stopping one panel short of the middle (faulty variant)
DiagonalLoopsShort(bottom, top, start_bot, end_bot, start_top, end_top) ==
    LET mid_bot == Len(bottom) \div 2
        mid_top == Len(top) \div 2
    IN  Zip(PySlice(bottom, Some(start_bot), Some(mid_bot + 1)),
            PySlice(top, Some(start_top), Some(mid_top + 1)))
        \o Zip(PySliceRev(bottom, end_bot, Some(mid_bot)),
               PySliceRev(top, end_top, Some(mid_top)))

\* The two zip loops of the web diagonals (truss.py:72-83, 166-177)
DiagonalLoops(bottom, top, start_bot, end_bot, start_top, end_top) ==
    LET mid_bot == Len(bottom) \div 2
        mid_top == Len(top) \div 2
    IN  Zip(PySlice(bottom, Some(start_bot), Some(mid_bot + 1)),
            PySlice(top, Some(start_top), Some(mid_top + 1)))
        \o Zip(PySliceRev(bottom, end_bot, Some(mid_bot - 1)),
               PySliceRev(top, end_top, Some(mid_top - 1)))

\* The web verticals zipped from the first node of both chords whatever the
\* end type (faulty variant)
FlatVerticalsUnaligned(s, bottom, top) ==
    Zip(PySlice(bottom, Some(0), None), PySlice(top, Some(0), None))
\* The web verticals of Howe and Pratt (truss.py:85-100, 179-194)
FlatVerticals(s, bottom, top) ==
    IF s.end_type = "triangle_up"
    THEN Zip(PySlice(bottom, Some(0), None), PySlice(top, Some(1), Some(-1)))
    ELSE IF s.end_type = "triangle_down"
    THEN Zip(PySlice(bottom, Some(1), Some(-1)), PySlice(top, Some(0), None))
    ELSE Zip(PySlice(bottom, Some(0), None), PySlice(top, Some(0), None))

\* HoweFlatTruss.define_connectivity (truss.py:40-100)
HoweFlatConnectivity(s) ==
    LET nb == NBottomNodes(s)
        nt == NTopNodes(s)
        bottom == Range(0, nb)
        top == Range(nb, nb + nt)
        web == IF s.end_type = "triangle_up"
               THEN <<<<0, nb>>, <<nb - 1, nb + nt - 1>>>>
                    \o DiagonalLoops(bottom, top, 0, None, 2, Some(-3))
               ELSE IF s.end_type = "flat"
               THEN DiagonalLoops(bottom, top, 0, None, 1, Some(-2))
               ELSE DiagonalLoops(bottom, top, 0, None, 0, None)
    IN  Conn(ListChord(bottom), ListChord(top), web,
             FlatVerticals(s, bottom, top))

\* PrattFlatTruss.define_connectivity (truss.py:134-194)
PrattFlatConnectivity(s) ==
    LET nb == NBottomNodes(s)
        nt == NTopNodes(s)
        bottom == Range(0, nb)
        top == Range(nb, nb + nt)
        web == IF s.end_type = "triangle_down"
               THEN <<<<nb, 0>>, <<nb + nt - 1, nb - 1>>>>
                    \o DiagonalLoops(bottom, top, 2, Some(-3), 0, None)
               ELSE IF s.end_type = "flat"
               THEN DiagonalLoops(bottom, top, 1, Some(-2), 0, None)
               ELSE DiagonalLoops(bottom, top, 0, None, 0, None)
    IN  Conn(ListChord(bottom), ListChord(top), web,
             FlatVerticals(s, bottom, top))

\* WarrenFlatTruss.define_connectivity (truss.py:288-316)
WarrenFlatConnectivity(s) ==
    LET nb == s.n_units + (IF s.end_type = "triangle_down" THEN 1 ELSE 0)
        nt == s.n_units + (IF s.end_type = "triangle_up" THEN 1 ELSE 0)
        bottom == Range(0, nb)
        top == Range(nb, nb + nt)
        top_start == IF s.end_type = "triangle_down" THEN 0 ELSE 1
        bot_start == IF s.end_type = "triangle_up" THEN 0 ELSE 1
    IN  Conn(ListChord(bottom), ListChord(top),
             Zip(bottom, PySlice(top, Some(top_start), None))
             \o Zip(top, PySlice(bottom, Some(bot_start), None)),
             <<>>)

\* The overhang nodes put at the ridge ends of the slopes (faulty variant)
RoofTopOverhangAtRidge(s, left, right, n) ==
    IF s.overhang_length > 0
    THEN DictChord(<<"left", "right">>,
                   <<left \o <<n>>, <<n + 1>> \o right>>)
    ELSE DictChord(<<"left", "right">>, <<left, right>>)
\* The top chord of a roof truss: left and right slopes, the overhang nodes
\* inserted at the outer ends when overhang_length > 0 (truss.py:361-364)
RoofTop(s, left, right, n) ==
    IF s.overhang_length > 0
    THEN DictChord(<<"left", "right">>,
                   <<<<n>> \o left, right \o <<n + 1>>>>)
    ELSE DictChord(<<"left", "right">>, <<left, right>>)

\* define_connectivity of the ten plain roof topologies
RoofConnectivity(s) ==
    CASE s.cls = "KingPostRoofTruss" ->                     \* truss.py:354-367
            Conn(ListChord(<<0, 1, 2>>),
                 RoofTop(s, <<0, 3>>, <<3, 2>>, 4),
                 <<>>, <<<<1, 3>>>>)
      [] s.cls = "QueenPostRoofTruss" ->                    \* truss.py:408-431
            Conn(ListChord(<<0, 1, 2>>),
                 RoofTop(s, <<0, 3, 4>>, <<4, 5, 2>>, 6),
                 <<<<1, 3>>, <<1, 5>>>>, <<<<1, 4>>>>)
      [] s.cls = "FinkRoofTruss" ->                         \* truss.py:473-489
            Conn(ListChord(<<0, 1, 2, 3>>),
                 RoofTop(s, <<0, 4, 5>>, <<5, 6, 3>>, 7),
                 <<<<1, 4>>, <<1, 5>>, <<2, 5>>, <<2, 6>>>>, <<>>)
      [] s.cls = "HoweRoofTruss" ->                         \* truss.py:532-551
            Conn(ListChord(<<0, 1, 2, 3, 4>>),
                 RoofTop(s, <<0, 5, 6>>, <<6, 7, 4>>, 8),
                 <<<<2, 5>>, <<2, 7>>>>,
                 <<<<1, 5>>, <<2, 6>>, <<3, 7>>>>)
      [] s.cls = "PrattRoofTruss" ->                        \* truss.py:594-613
            Conn(ListChord(<<0, 1, 2, 3, 4>>),
                 RoofTop(s, <<0, 5, 6>>, <<6, 7, 4>>, 8),
                 <<<<1, 6>>, <<3, 6>>>>,
                 <<<<1, 5>>, <<2, 6>>, <<3, 7>>>>)
      [] s.cls = "FanRoofTruss" ->                          \* truss.py:657-680
            Conn(ListChord(<<0, 1, 2, 3>>),
                 RoofTop(s, <<0, 4, 5, 6>>, <<6, 7, 8, 3>>, 9),
                 <<<<1, 4>>, <<1, 6>>, <<2, 6>>, <<2, 8>>>>,
                 <<<<1, 5>>, <<2, 7>>>>)
      [] s.cls = "ModifiedQueenPostRoofTruss" ->            \* truss.py:725-749
            Conn(ListChord(<<0, 1, 2, 3, 4>>),
                 RoofTop(s, <<0, 5, 6, 7>>, <<7, 8, 9, 4>>, 10),
                 <<<<1, 5>>, <<1, 6>>, <<2, 6>>, <<2, 8>>, <<3, 8>>,
                   <<3, 9>>>>,
                 <<<<2, 7>>>>)
      [] s.cls = "DoubleFinkRoofTruss" ->                   \* truss.py:795-818
            Conn(ListChord(<<0, 1, 2, 3, 4, 5>>),
                 RoofTop(s, <<0, 6, 7, 8>>, <<8, 9, 10, 5>>, 11),
                 <<<<1, 6>>, <<1, 7>>, <<2, 7>>, <<2, 8>>, <<3, 8>>,
                   <<3, 9>>, <<4, 9>>, <<4, 10>>>>,
                 <<>>)
      [] s.cls = "DoubleHoweRoofTruss" ->                   \* truss.py:865-891
            Conn(ListChord(<<0, 1, 2, 3, 4, 5, 6>>),
                 RoofTop(s, <<0, 7, 8, 9>>, <<9, 10, 11, 6>>, 12),
                 <<<<2, 7>>, <<3, 8>>, <<3, 10>>, <<4, 11>>>>,
                 <<<<1, 7>>, <<2, 8>>, <<3, 9>>, <<4, 10>>, <<5, 11>>>>)
      [] s.cls = "ModifiedFanRoofTruss" ->                  \* truss.py:938-964
            Conn(ListChord(<<0, 1, 2, 3, 4>>),
                 RoofTop(s, <<0, 5, 6, 7, 8>>, <<8, 9, 10, 11, 4>>, 12),
                 <<<<1, 5>>, <<1, 7>>, <<2, 7>>, <<2, 9>>, <<3, 9>>,
                   <<3, 11>>>>,
                 <<<<1, 6>>, <<2, 8>>, <<3, 10>>>>)

\* AtticRoofTruss.define_connectivity (truss.py:1142-1190)
AtticConnectivity(s) ==
    IF s.wall_ceiling_intersect
    THEN LET lr == RoofTop(s, <<0, 4, 5, 6>>, <<6, 7, 8, 3>>, 10)
         IN  Conn(ListChord(<<0, 1, 2, 3>>),
                  DictChord(lr.names \o <<"ceiling">>,
                            lr.ids \o <<<<5, 9, 7>>>>),
                  <<<<1, 4>>, <<9, 6>>, <<2, 8>>>>,
                  <<<<1, 5>>, <<2, 7>>>>)
    ELSE LET lr == RoofTop(s, <<0, 4, 5, 6, 7>>, <<7, 8, 9, 10, 3>>, 12)
         IN  Conn(ListChord(<<0, 1, 2, 3>>),
                  DictChord(lr.names \o <<"ceiling">>,
                            lr.ids \o <<<<6, 11, 8>>>>),
                  <<<<1, 4>>, <<11, 7>>, <<2, 10>>>>,
                  <<<<1, 5>>, <<2, 9>>>>)

\* define_connectivity, dispatched on the class of the instance
DefineConnectivity(s) ==
    IF s.cls = "HoweFlatTruss" THEN HoweFlatConnectivity(s)
    ELSE IF s.cls = "PrattFlatTruss" THEN PrattFlatConnectivity(s)
    ELSE IF s.cls = "WarrenFlatTruss" THEN WarrenFlatConnectivity(s)
    ELSE IF s.cls = "AtticRoofTruss" THEN AtticConnectivity(s)
    ELSE RoofConnectivity(s)

(***************************************************************************)
(* define_supports                                                         *)
(***************************************************************************)
\* _resolve_support_type ignoring is_primary (faulty variant)
ResolveSupportTypePrimaryOnly(supports_type, is_primary) ==
    IF supports_type # "simple" THEN supports_type ELSE "pinned"

\* Truss._resolve_support_type (truss_class.py:279-294)
ResolveSupportType(supports_type, is_primary) ==
    IF supports_type # "simple" THEN supports_type
    ELSE IF is_primary THEN "pinned" ELSE "roller"

\* d[key] = value on a dict kept as a list of <<key, value>> in insertion order
DictSet(d, key, value) ==
    IF \E i \in 1..Len(d) : d[i][1] = key
    THEN [i \in 1..Len(d) |-> IF d[i][1] = key THEN <<key, value>> ELSE d[i]]
    ELSE Append(d, <<key, value>>)

\* All node ids of a chord, segment after segment
ChordIds(c) ==
    LET RECURSIVE Cat(_)
        Cat(k) == IF k = 0 THEN <<>> ELSE Cat(k - 1) \o c.ids[k]
    IN  Cat(Len(c.ids))

\* FlatTruss.define_supports (truss_class.py:670-695): the dict after it
FlatSupports(s, d, bottom, top) ==
    LET bottom_left == 0
        bottom_right == SeqMax(ChordIds(bottom))
        top_left == SeqMin(ChordIds(top))
        top_right == SeqMax(ChordIds(top))
        primary == ResolveSupportType(s.supports_type, TRUE)
        secondary == ResolveSupportType(s.supports_type, FALSE)
        d1 == IF s.supports_loc \in {"bottom_chord", "both"}
              THEN DictSet(DictSet(d, bottom_left, primary),
                           bottom_right, secondary)
              ELSE d
    IN  IF s.supports_loc \in {"top_chord", "both"}
        THEN DictSet(DictSet(d1, top_left, primary), top_right, secondary)
        ELSE d1

\* The roller put at node 0 and the pin at the far end (faulty variant)
RoofSupportsRollerFirst(s, d, bottom) ==
    DictSet(DictSet(d, 0, ResolveSupportType(s.supports_type, FALSE)),
            SeqMax(ChordIds(bottom)),
            ResolveSupportType(s.supports_type, TRUE))

\* RoofTruss.define_supports (truss_class.py:779-794): the dict after it
RoofSupports(s, d, bottom) ==
    DictSet(DictSet(d, 0, ResolveSupportType(s.supports_type, TRUE)),
            SeqMax(ChordIds(bottom)),
            ResolveSupportType(s.supports_type, FALSE))

DefineSupports(s, d, bottom, top) ==
    IF s.cls \in FlatClasses THEN FlatSupports(s, d, bottom, top)
    ELSE RoofSupports(s, d, bottom)

(***************************************************************************)
(* Assembly into the structural model.  SystemElements is not part of the  *)
(* sources: add_node stores the point under its id, add_element returns    *)
(* consecutive ids from 1, and the add_support_* operations record the     *)
(* node with the kind of support.                                          *)
(***************************************************************************)
\* SystemElements(): no nodes, members, supports or loads, the load factor
\* 1.0
NewSystem == [created |-> TRUE, node_map |-> <<>>, element_map |-> <<>>,
              supports |-> <<>>, loads |-> <<>>, load_factor |-> Halves]

\* add_node(system, point, node_id) for every node (truss_class.py:176-179)
AddNodes(sys, nodes) ==
    [sys EXCEPT !.node_map = [k \in 1..Len(nodes) |-> <<k - 1, nodes[k]>>]]

\* zip(ids[:-1], ids[1:]) (truss_class.py:224, 230-232)
ConsecutivePairs(ids) ==
    Zip(PySlice(ids, None, Some(-1)), PySlice(ids, Some(1), None))

\* add_segment_elements passing spring=None for every element (faulty variant)
SegmentElementsRigid(nodes, node_pairs, section, continuous, first_id) ==
    [k \in 1..Len(node_pairs) |->
        [id |-> first_id + k - 1,
         location |-> <<nodes[node_pairs[k][1] + 1],
                        nodes[node_pairs[k][2] + 1]>>,
         EA |-> section.EA, EI |-> section.EI, g |-> section.g,
         pinned |-> FALSE]]

\* add_segment_elements (truss_class.py:191-217): the elements created for
\* node_pairs, the first of them getting the id first_id
SegmentElements(nodes, node_pairs, section, continuous, first_id) ==
    [k \in 1..Len(node_pairs) |->
        [id |-> first_id + k - 1,
         location |-> <<nodes[node_pairs[k][1] + 1],
                        nodes[node_pairs[k][2] + 1]>>,
         EA |-> section.EA, EI |-> section.EI, g |-> section.g,
         pinned |-> ~continuous]]

ElementIds(elements) == [k \in 1..Len(elements) |-> elements[k].id]

\* The elements of a chord, segment after segment
\* (truss_class.py:219-253)
RECURSIVE ChordElements(_, _, _, _, _, _)
ChordElements(nodes, chord, section, continuous, first_id, k) ==
    IF k > Len(chord.ids) THEN <<>>
    ELSE LET seg == SegmentElements(nodes, ConsecutivePairs(chord.ids[k]),
                                    section, continuous, first_id)
         IN  <<seg>> \o ChordElements(nodes, chord, section, continuous,
                                      first_id + Len(seg), k + 1)

Flatten(ss) ==
    LET RECURSIVE Cat(_)
        Cat(k) == IF k = 0 THEN <<>> ELSE Cat(k - 1) \o ss[k]
    IN  Cat(Len(ss))

\* Truss.add_elements (truss_class.py:181-267): the element map and the four
\* element-id containers, in the order bottom chord, top chord, diagonals,
\* verticals
AddElements(s, h, sys) ==
    LET nodes == h[s.nodes]
        first == Len(sys.element_map) + 1
        bc == h[s.bottom_chord_node_ids]
        tc == h[s.top_chord_node_ids]
        bottom == ChordElements(nodes, bc, h[s.bottom_chord_section],
                                s.bottom_chord_continuous, first, 1)
        nbot == Len(Flatten(bottom))
        top == ChordElements(nodes, tc, h[s.top_chord_section],
                             s.top_chord_continuous, first + nbot, 1)
        ntop == Len(Flatten(top))
        web == SegmentElements(nodes, h[s.web_node_pairs], h[s.web_section],
                               FALSE, first + nbot + ntop)
        vert == SegmentElements(nodes, h[s.web_verticals_node_pairs],
                                h[s.web_verticals_section], FALSE,
                                first + nbot + ntop + Len(web))
    IN  [self |-> [s EXCEPT !.bottom_chord_element_ids = NewCell(h, 1),
                            !.top_chord_element_ids = NewCell(h, 2),
                            !.web_element_ids = NewCell(h, 3),
                            !.web_verticals_element_ids = NewCell(h, 4)],
         heap |-> h \o <<[bc EXCEPT !.ids =
                              [k \in 1..Len(bottom) |-> ElementIds(bottom[k])]],
                         [tc EXCEPT !.ids =
                              [k \in 1..Len(top) |-> ElementIds(top[k])]],
                         ElementIds(web), ElementIds(vert)>>,
         system |-> [sys EXCEPT !.element_map =
                         @ \o Flatten(bottom) \o Flatten(top) \o web \o vert]]

\* Truss.add_supports (truss_class.py:269-277)
SupportOperation(support_type) ==
    CASE support_type = "fixed" -> "add_support_fixed"
      [] support_type = "pinned" -> "add_support_hinged"
      [] support_type = "roller" -> "add_support_roll"
AddSupports(sys, support_definitions) ==
    [sys EXCEPT !.supports =
        @ \o [k \in 1..Len(support_definitions) |->
                 [node_id |-> support_definitions[k][1],
                  operation |-> SupportOperation(support_definitions[k][2])]]]

(***************************************************************************)
(* Truss.validate (truss_class.py:422-537)                                 *)
(***************************************************************************)
\* node_id < 0 or node_id > max_node_id
InvalidNodeId(node_id, max_node_id) == node_id < 0 \/ node_id > max_node_id

\* Some id of the chord / of a pair list is outside 0..max_node_id
ChordHasInvalidId(c, max_node_id) ==
    \E k \in 1..Len(c.ids) : \E i \in 1..Len(c.ids[k]) :
        InvalidNodeId(c.ids[k][i], max_node_id)
PairsHaveInvalidId(pairs, max_node_id) ==
    \E i \in 1..Len(pairs) :
        InvalidNodeId(pairs[i][1], max_node_id)
        \/ InvalidNodeId(pairs[i][2], max_node_id)

\* The duplicate check comparing the positions for equality (faulty variant)
CoincideExactly(a, b) == a[1] = b[1] /\ a[2] = b[2]
\* dx < tolerance and dy < tolerance (truss_class.py:491-493)
Coincide(a, b) == Abs(a[1] - b[1]) < tolerance /\ Abs(a[2] - b[2]) < tolerance
HasDuplicateNodes(nodes) ==
    \E i \in 1..Len(nodes) : \E j \in (i + 1)..Len(nodes) :
        Coincide(nodes[i], nodes[j])

\* sqrt(dx**2 + dy**2) < tolerance (truss_class.py:503-508); the squares are
\* taken only when both differences are below the tolerance
ZeroLength(nodes, node_a_id, node_b_id) ==
    LET dx == nodes[node_b_id + 1][1] - nodes[node_a_id + 1][1]
        dy == nodes[node_b_id + 1][2] - nodes[node_a_id + 1][2]
    IN  /\ Abs(dx) < tolerance
        /\ Abs(dy) < tolerance
        /\ dx * dx + dy * dy < tolerance_squared
ChordHasZeroLength(nodes, c) ==
    \E k \in 1..Len(c.ids) : \E i \in 1..(Len(c.ids[k]) - 1) :
        ZeroLength(nodes, c.ids[k][i], c.ids[k][i + 1])
PairsHaveZeroLength(nodes, pairs) ==
    \E i \in 1..Len(pairs) : ZeroLength(nodes, pairs[i][1], pairs[i][2])

\* The three check categories of validate()
IndexCheckFails(s, h) ==
    LET max_node_id == Len(h[s.nodes]) - 1
    IN  \/ ChordHasInvalidId(h[s.top_chord_node_ids], max_node_id)
        \/ ChordHasInvalidId(h[s.bottom_chord_node_ids], max_node_id)
        \/ PairsHaveInvalidId(h[s.web_node_pairs], max_node_id)
        \/ PairsHaveInvalidId(h[s.web_verticals_node_pairs], max_node_id)
DuplicateCheckFails(s, h) == HasDuplicateNodes(h[s.nodes])
LengthCheckFails(s, h) ==
    \/ ChordHasZeroLength(h[s.nodes], h[s.top_chord_node_ids])
    \/ ChordHasZeroLength(h[s.nodes], h[s.bottom_chord_node_ids])
    \/ PairsHaveZeroLength(h[s.nodes], h[s.web_node_pairs])
    \/ PairsHaveZeroLength(h[s.nodes], h[s.web_verticals_node_pairs])

\* validate() looking for duplicate nodes before it checks the node ids
\* (faulty variant)
ValidateDuplicatesFirst(s, h) ==
    IF DuplicateCheckFails(s, h) THEN "Duplicate nodes"
    ELSE IF IndexCheckFails(s, h) THEN "invalid node ID"
    ELSE IF LengthCheckFails(s, h) THEN "Zero-length element"
    ELSE "True"

\* validate(): "True" or the category of the ValueError raised
Validate(s, h) ==
    IF IndexCheckFails(s, h) THEN "invalid node ID"
    ELSE IF DuplicateCheckFails(s, h) THEN "Duplicate nodes"
    ELSE IF LengthCheckFails(s, h) THEN "Zero-length element"
    ELSE "True"

(***************************************************************************)
(* Actions.  Python runs one call at a time: an instance is constructed    *)
(* from the outermost __init__ down to Truss.__init__, which runs the      *)
(* phases; the second instance is constructed, with the same arguments,    *)
(* once the first exists; validate() and the caller's alterations happen   *)
(* between constructions.                                                  *)
(***************************************************************************)
\* The statements of Truss.__init__ after the containers are initialised,
\* in program order (truss_class.py:136-143)
Phases == <<"define_nodes", "define_connectivity", "define_supports",
            "SystemElements", "add_nodes", "add_elements", "add_supports">>
PhaseIndex(p) == CHOOSE i \in 1..Len(Phases) : Phases[i] = p
\* Truss.__init__ running define_nodes again after add_supports (faulty variant)
PhaseAfterReentrant(p) ==
    IF PhaseIndex(p) < Len(Phases) THEN Phases[PhaseIndex(p) + 1]
    ELSE Phases[1]
\* Where control goes when phase p returns
PhaseAfter(p) ==
    IF PhaseIndex(p) < Len(Phases) THEN Phases[PhaseIndex(p) + 1]
    ELSE "return"

\* The __init__ a constructor call of class cls enters first
EntryPoint(cls) ==
    IF cls = "WarrenFlatTruss" THEN "WarrenFlatTruss.__init__"
    ELSE IF cls \in FlatClasses THEN "FlatTruss.__init__"
    ELSE IF cls = "AtticRoofTruss" THEN "AtticRoofTruss.__init__"
    ELSE "RoofTruss.__init__"

\* Where control goes when Truss.__init__ returns to the outermost __init__
\* (only WarrenFlatTruss.__init__ has a statement left, truss.py:255)
AfterTrussInit(cls) ==
    IF cls = "WarrenFlatTruss" THEN "WarrenFlatTruss.end_width" ELSE "done"

Constructed(t) == pc[t] = "done"
Quiescent == \A u \in Inst : pc[u] \in {"idle", "done", "failed"}
Logged(t, what) == \E i \in 1..Len(calls[t]) : calls[t][i] = what
Altered(t) == \E i \in 1..Len(calls[t]) : calls[t][i] \notin SeqSet(Phases)

\* cls(**args)
Construct(t) ==
    /\ pc[t] = "idle"
    /\ \A u \in Inst : u < t => Constructed(u) /\ ~Altered(u)
    /\ pc' = [pc EXCEPT ![t] = EntryPoint(args.cls)]
    /\ frame' = [frame EXCEPT ![t] = BlankFrame(args)]
    /\ UNCHANGED <<usage, args, self, heap, system, err, calls, vres>>

\* One __init__ of the chain: r is what it computed, next the __init__ its
\* super().__init__ call enters, f the arguments of that call
InitStep(t, r, next, f) ==
    /\ self' = [self EXCEPT ![t] = r.self]
    /\ err' = [err EXCEPT ![t] = r.err]
    /\ pc' = [pc EXCEPT ![t] = IF r.err = "none" THEN next ELSE "failed"]
    /\ frame' = [frame EXCEPT ![t] = IF r.err = "none" THEN f ELSE @]

WarrenFlatTruss__init__(t) ==
    /\ pc[t] = "WarrenFlatTruss.__init__"
    /\ InitStep(t, Return(self[t]), "FlatTruss.__init__",
                WarrenFrame(frame[t]))
    /\ UNCHANGED <<usage, args, heap, system, calls, vres>>

FlatTruss__init__(t) ==
    /\ pc[t] = "FlatTruss.__init__"
    /\ InitStep(t, FlatTrussInit(self[t], frame[t]), "Truss.__init__",
                frame[t])
    /\ UNCHANGED <<usage, args, heap, system, calls, vres>>

AtticRoofTruss__init__(t) ==
    /\ pc[t] = "AtticRoofTruss.__init__"
    /\ InitStep(t, AtticRoofTrussInit(self[t], frame[t]),
                "RoofTruss.__init__", frame[t])
    /\ UNCHANGED <<usage, args, heap, system, calls, vres>>

\* height = (width / 2) * np.tan(self.roof_pitch) is the height argument
\* of the super().__init__ call (truss_class.py:760-769)
RoofTruss__init__(t) ==
    /\ pc[t] = "RoofTruss.__init__"
    /\ LET r == RoofTrussInit(self[t], frame[t])
       IN  InitStep(t, r, "Truss.__init__",
                    IF r.err = "none"
                    THEN [frame[t] EXCEPT !.height =
                             RoofHeight(frame[t].width,
                                        frame[t].roof_pitch_deg)]
                    ELSE frame[t])
    /\ UNCHANGED <<usage, args, heap, system, calls, vres>>

Truss__init__(t) ==
    /\ pc[t] = "Truss.__init__"
    /\ LET r == TrussInit(self[t], frame[t], heap)
       IN  /\ InitStep(t, r, Phases[1], frame[t])
           /\ heap' = r.heap
    /\ UNCHANGED <<usage, args, system, calls, vres>>

\* Entering and leaving a phase of Truss.__init__
Phase(t, p) ==
    /\ pc[t] = p
    /\ calls' = [calls EXCEPT ![t] = Append(@, p)]
    /\ pc' = [pc EXCEPT ![t] = IF PhaseAfter(p) = "return"
                               THEN AfterTrussInit(self[t].cls)
                               ELSE PhaseAfter(p)]

define_nodes(t) ==
    /\ Phase(t, "define_nodes")
    /\ heap' = [heap EXCEPT ![self[t].nodes] = @ \o DefineNodes(self[t])]
    /\ UNCHANGED <<usage, args, frame, self, system, err, vres>>

\* The chords are assigned fresh containers; the pairs are appended to the
\* lists Truss.__init__ created
define_connectivity(t) ==
    /\ Phase(t, "define_connectivity")
    /\ LET c == DefineConnectivity(self[t])
       IN  /\ self' = [self EXCEPT
                  ![t].bottom_chord_node_ids = NewCell(heap, 1),
                  ![t].top_chord_node_ids = NewCell(heap, 2)]
           /\ heap' = [heap EXCEPT
                  ![self[t].web_node_pairs] = @ \o c.web,
                  ![self[t].web_verticals_node_pairs] = @ \o c.verticals]
                \o <<c.bottom, c.top>>
    /\ UNCHANGED <<usage, args, frame, system, err, vres>>

define_supports(t) ==
    /\ Phase(t, "define_supports")
    /\ heap' = [heap EXCEPT ![self[t].support_definitions] =
                   DefineSupports(self[t], @,
                                  heap[self[t].bottom_chord_node_ids],
                                  heap[self[t].top_chord_node_ids])]
    /\ UNCHANGED <<usage, args, frame, self, system, err, vres>>

\* self.system = SystemElements() (truss_class.py:140)
SystemElements(t) ==
    /\ Phase(t, "SystemElements")
    /\ system' = [system EXCEPT ![t] = NewSystem]
    /\ UNCHANGED <<usage, args, frame, self, heap, err, vres>>

add_nodes(t) ==
    /\ Phase(t, "add_nodes")
    /\ system' = [system EXCEPT ![t] = AddNodes(@, heap[self[t].nodes])]
    /\ UNCHANGED <<usage, args, frame, self, heap, err, vres>>

add_elements(t) ==
    /\ Phase(t, "add_elements")
    /\ LET r == AddElements(self[t], heap, system[t])
       IN  /\ self' = [self EXCEPT ![t] = r.self]
           /\ heap' = r.heap
           /\ system' = [system EXCEPT ![t] = r.system]
    /\ UNCHANGED <<usage, args, frame, err, vres>>

add_supports(t) ==
    /\ Phase(t, "add_supports")
    /\ system' = [system EXCEPT ![t] =
                     AddSupports(@, heap[self[t].support_definitions])]
    /\ UNCHANGED <<usage, args, frame, self, heap, err, vres>>

\* self.end_width = (width - self.n_units * unit_width) / 2 + unit_width / 2
\* (truss.py:255)
WarrenFlatTruss_end_width(t) ==
    /\ pc[t] = "WarrenFlatTruss.end_width"
    /\ self' = [self EXCEPT ![t].end_width =
                   WarrenEndWidth(frame[t].width, self[t].n_units,
                                  frame[t].unit_width)]
    /\ pc' = [pc EXCEPT ![t] = "done"]
    /\ UNCHANGED <<usage, args, frame, heap, system, err, calls, vres>>

\* validate() dropping the diagonal pairs it finds out of range (faulty
\* variant)
validate_repairing(t) ==
    /\ Constructed(t)
    /\ Quiescent
    /\ vres' = [vres EXCEPT ![t] = Validate(self[t], heap)]
    /\ heap' = [heap EXCEPT ![self[t].web_node_pairs] =
                   SelectSeq(@, LAMBDA p :
                       ~InvalidNodeId(p[1], Len(heap[self[t].nodes]) - 1)
                       /\ ~InvalidNodeId(p[2], Len(heap[self[t].nodes]) - 1))]
    /\ UNCHANGED <<usage, args, pc, frame, self, system, err, calls>>

\* truss.validate()
validate(t) ==
    /\ Constructed(t)
    /\ Quiescent
    /\ vres' = [vres EXCEPT ![t] = Validate(self[t], heap)]
    /\ UNCHANGED <<usage, args, pc, frame, self, heap, system, err, calls>>

(***************************************************************************)
(* The caller altering a constructed truss in place, as in                 *)
(* truss1.nodes.append(Vertex(100, 100)) (tests/test_truss.py:664); the    *)
(* appended Vertex of the model is at (60, 60), as far from every node.    *)
(***************************************************************************)
ContainerAttrs ==
    {"nodes", "top_chord_node_ids", "bottom_chord_node_ids",
     "web_node_pairs", "web_verticals_node_pairs", "support_definitions"}
SectionAttrs ==
    {"top_chord_section", "bottom_chord_section", "web_section",
     "web_verticals_section"}

\* The container after the caller appended to it / stored into it
AlteredContainer(attr, c) ==
    CASE attr = "nodes" -> Append(c, V(60 * Scale, 60 * Scale))
      [] attr \in {"top_chord_node_ids", "bottom_chord_node_ids"} ->
            [c EXCEPT !.ids[Len(c.ids)] = Append(@, 0)]
      [] attr \in {"web_node_pairs", "web_verticals_node_pairs"} ->
            Append(c, <<0, 1>>)
      [] attr = "support_definitions" -> DictSet(c, 1, "fixed")
\* truss.<attr>["EI"] = 2 * truss.<attr>["EI"]
AlteredSection(c) == [c EXCEPT !.EI = 2 * @]

\* One alteration per run, once every instance is constructed
MayAlter(t) ==
    /\ Quiescent
    /\ \A u \in Inst : Constructed(u) /\ ~Altered(u)

alter_container(t, attr) ==
    /\ MayAlter(t)
    /\ heap' = [heap EXCEPT ![self[t][attr]] = AlteredContainer(attr, @)]
    /\ calls' = [calls EXCEPT ![t] = Append(@, attr)]
    /\ UNCHANGED <<usage, args, pc, frame, self, system, err, vres>>

alter_section(t, attr) ==
    /\ MayAlter(t)
    /\ heap' = [heap EXCEPT ![self[t][attr]] = AlteredSection(@)]
    /\ calls' = [calls EXCEPT ![t] = Append(@, attr)]
    /\ UNCHANGED <<usage, args, pc, frame, self, system, err, vres>>

Next ==
    \E t \in Inst :
        \/ Construct(t)
        \/ WarrenFlatTruss__init__(t)
        \/ FlatTruss__init__(t)
        \/ AtticRoofTruss__init__(t)
        \/ RoofTruss__init__(t)
        \/ Truss__init__(t)
        \/ define_nodes(t)
        \/ define_connectivity(t)
        \/ define_supports(t)
        \/ SystemElements(t)
        \/ add_nodes(t)
        \/ add_elements(t)
        \/ add_supports(t)
        \/ WarrenFlatTruss_end_width(t)
        \/ validate(t)
        \/ \E attr \in ContainerAttrs : alter_container(t, attr)
        \/ \E attr \in SectionAttrs : alter_section(t, attr)

Spec == Init /\ [][Next]_vars

(***************************************************************************)
(* Properties                                                              *)
(***************************************************************************)
Flat(a) == a.cls \in FlatClasses
Roof(a) == a.cls \in RoofClasses
Attic(a) == a.cls = "AtticRoofTruss"
Failed(t) == pc[t] = "failed"
\* The instance has been given to Truss.__init__ and not been rejected
PastChecks(t) == pc[t] \in SeqSet(Phases) \cup {"WarrenFlatTruss.end_width",
                                                 "done"}

FlatChecksPassable(a) ==
    a.unit_width > 0 /\ FractionInRange(a.min_end_fraction)
\* (W - 2 f u) / u in doubles, for u > 0: the unit count before it is
\* rounded down
RatioOf(w, u, f) == DDiv(DSub(Double(w), DMul(DAdd(f, f), Double(u))), Double(u))
\* The spans, panel widths and end fractions of the flat trusses that pass
\* the checks of the panel width and the end fraction, and their ratios
FlatTriples ==
    {<<a.width, a.unit_width, a.min_end_fraction>> :
        a \in {b \in FlatArgs \cup WarrenArgs : FlatChecksPassable(b)}}
PanelRatios == [x \in FlatTriples |-> RatioOf(x[1], x[2], x[3])]
PanelRatio(a) == PanelRatios[<<a.width, a.unit_width, a.min_end_fraction>>]
\* The whole number n as a double
Whole(n) == Double(n * Scale)
PitchInRange(a) == 0 < a.roof_pitch_deg /\ a.roof_pitch_deg < 9000
AtticWidthInRange(a) == 0 < a.attic_width /\ a.attic_width < a.width
\* The height at which the attic wall meets the sloped top chord
WallHeight(a) == WallY(a.width, a.roof_pitch_deg, a.attic_width)

\* The documented valid ranges
ValidArgs(a) ==
    /\ a.width > 0
    /\ Flat(a) => /\ a.height > 0
                  /\ FlatChecksPassable(a)
                  /\ ~Less(PanelRatio(a), Whole(2))
    /\ Roof(a) => PitchInRange(a) /\ a.overhang_length >= 0
    /\ Attic(a) => /\ AtticWidthInRange(a)
                   /\ PitchInRange(a) =>
                         \/ IsNone(a.attic_height)
                         \/ ~Less(Val(a.attic_height), WallHeight(a))

\* C1: for every topology and every input inside the documented valid
\* ranges, construction succeeds and validate() on the freshly constructed
\* truss returns success.
C1_ValidInputsValidate ==
    ValidArgs(args) =>
        \A t \in Inst :
            /\ ~Failed(t)
            /\ (vres[t] # "none" /\ ~Altered(t)) => vres[t] = "True"

\* All node ids the connectivity of instance t refers to
ReferencedIds(t) ==
    SeqSet(ChordIds(heap[self[t].top_chord_node_ids]))
    \cup SeqSet(ChordIds(heap[self[t].bottom_chord_node_ids]))
    \cup UNION {{pr[1], pr[2]} : pr \in SeqSet(heap[self[t].web_node_pairs])}
    \cup UNION {{pr[1], pr[2]} :
                   pr \in SeqSet(heap[self[t].web_verticals_node_pairs])}

\* C2: after construction with any accepted parameters, every node index in
\* the top chord, the bottom chord (list or named segments), the diagonal
\* pairs and the vertical pairs lies in [0, len(nodes) - 1].  The indices are
\* fixed by define_connectivity, so the property is stated from the moment
\* that phase has returned; the constructed instance is its last such state.
C2_IndicesInRange ==
    \A t \in Inst :
        ((Constructed(t) \/ Logged(t, "define_connectivity")) /\ ~Altered(t)) =>
            ReferencedIds(t) \subseteq 0..(Len(heap[self[t].nodes]) - 1)
C2_Witness ==
    \E t \in Inst :
        /\ Constructed(t)
        /\ Attic(args)
        /\ ~self[t].wall_ceiling_intersect
        /\ self[t].overhang_length > 0
        /\ Cardinality(ReferencedIds(t)) = Len(heap[self[t].nodes])

\* The six lifecycle methods in the order the claim states
Lifecycle == <<"define_nodes", "define_connectivity", "define_supports",
               "add_nodes", "add_elements", "add_supports">>
IsLifecycle(c) == c \in SeqSet(Lifecycle)
IsPrefix(a, b) == Len(a) <= Len(b) /\ \A i \in 1..Len(a) : a[i] = b[i]

\* C3: during construction define_nodes, define_connectivity and
\* define_supports run exactly once each, in that order, before assembly;
\* then add_nodes, add_elements and add_supports run exactly once each, in
\* that order; no phase is entered twice.
C3_PhasesOnceInOrder ==
    \A t \in Inst :
        /\ IsPrefix(SelectSeq(calls[t], IsLifecycle), Lifecycle)
        /\ system[t].created =>
              IsPrefix(SubSeq(Lifecycle, 1, 3), calls[t])
        /\ Constructed(t) => SelectSeq(calls[t], IsLifecycle) = Lifecycle
C3_Witness ==
    \E t \in Inst :
        /\ Constructed(t)
        /\ SelectSeq(calls[t], IsLifecycle) = Lifecycle
        /\ Len(system[t].element_map) > 0

\* An attic height lower than the wall/roof intersection by more than the
\* tolerance
AtticTooLow(a) ==
    /\ ~IsNone(a.attic_height)
    /\ Less(Val(a.attic_height), DSub(WallHeight(a), Tolerance))
InvalidArgs(a) ==
    \/ a.width <= 0
    \/ Flat(a) /\ \/ a.height <= 0
                  \/ ~FlatChecksPassable(a)
                  \/ Less(PanelRatio(a), Whole(2))
    \/ Roof(a) /\ (~PitchInRange(a) \/ a.overhang_length < 0)
    \/ Attic(a) /\ (~AtticWidthInRange(a) \/ AtticTooLow(a))

\* C4: when a constructor argument is invalid, construction raises before
\* define_nodes runs and before the structural model is created: no node,
\* member or support is ever added.
C4_InvalidFailsFast ==
    InvalidArgs(args) =>
        \A t \in Inst :
            /\ ~PastChecks(t)
            /\ calls[t] = <<>>
            /\ system[t] = NoSystem
            /\ self[t].nodes = 0
C4_Witness ==
    /\ InvalidArgs(args)
    /\ Failed(1)
    /\ err[1] = "height must be positive"
    /\ system[1] = NoSystem

\* The four failure cases of a flat truss, each taken with the other
\* arguments valid
SpanCase(a) == Flat(a) /\ a.width <= 0 /\ a.height > 0
               /\ FlatChecksPassable(a)
HeightCase(a) == Flat(a) /\ a.height <= 0 /\ a.width > 0
                 /\ FlatChecksPassable(a)
                 /\ ~Less(PanelRatio(a), Whole(2))
PanelWidthCase(a) == Flat(a) /\ a.unit_width <= 0 /\ a.width > 0
                     /\ a.height > 0
PanelTooWideCase(a) == Flat(a) /\ a.width > 0 /\ a.height > 0
                       /\ FlatChecksPassable(a)
                       /\ Less(PanelRatio(a), Whole(1))
FailureCase(a) == SpanCase(a) \/ HeightCase(a) \/ PanelWidthCase(a)
                  \/ PanelTooWideCase(a)

\* C5 as stated: each of the four cases fails with a category of its own; a
\* non-positive span is not reported in the "width too small" category.
C5_FourDistinctCategories ==
    \A t \in Inst :
        /\ FailureCase(args) => ~PastChecks(t)
        /\ Failed(t) =>
              /\ SpanCase(args) => err[t] = "width must be positive"
              /\ HeightCase(args) => err[t] = "height must be positive"
              /\ PanelWidthCase(args) => err[t] = "unit_width must be positive"
              /\ PanelTooWideCase(args) =>
                    err[t] = "width is too small for unit_width"

\* C5 amended: each of the four cases fails; a non-positive height, a
\* non-positive panel width and a unit count below 1 are reported in three
\* categories of their own, and a non-positive span is reported in the
\* "width too small" category of the unit count below 1.
C5_SpanReportedAsTooSmall ==
    \A t \in Inst :
        /\ FailureCase(args) => ~PastChecks(t)
        /\ Failed(t) =>
              /\ SpanCase(args) => err[t] = "width is too small for unit_width"
              /\ HeightCase(args) => err[t] = "height must be positive"
              /\ PanelWidthCase(args) => err[t] = "unit_width must be positive"
              /\ PanelTooWideCase(args) =>
                    err[t] = "width is too small for unit_width"
C5_Witness ==
    /\ SpanCase(args)
    /\ Failed(1)
    /\ err[1] = "width is too small for unit_width"

\* C6: n_units = floor((W - 2 f u) / u), the quotient being the double the
\* expression evaluates to, less one when even units are
\* enforced and it is odd; construction fails when it is below 1 before the
\* adjustment or below 2 after it; a constructed flat truss has n_units >= 2,
\* even when enforced (W = 20, u = 2 gives 8; W = 19, u = 2 gives 8).
C6_UnitCount ==
    (Flat(args) /\ FlatChecksPassable(args)) =>
        \A t \in Inst :
            LET q == PanelRatio(args)
                n == self[t].n_units
                even == args.enforce_even_units
            IN  /\ Less(q, Whole(1)) =>
                      /\ ~PastChecks(t)
                      /\ Failed(t) =>
                            err[t] = "width is too small for unit_width"
                /\ (~Less(q, Whole(1)) /\ Less(q, Whole(2))) =>
                      /\ ~PastChecks(t)
                      /\ Failed(t) => err[t] = "must have at least 2 units"
                /\ PastChecks(t) =>
                      /\ \E n0 \in {n, n + 1} :
                            /\ ~Less(q, Whole(n0))
                            /\ Less(q, Whole(n0 + 1))
                            /\ n = IF even /\ n0 % 2 = 1 THEN n0 - 1 ELSE n0
                      /\ n >= 2
                      /\ even => n % 2 = 0
                      /\ (args.unit_width = 2 * Scale
                          /\ args.min_end_fraction = Half /\ even
                          /\ args.width \in {19 * Scale, 20 * Scale}) => n = 8
C6_Witness ==
    /\ Constructed(1)
    /\ args.width = 19 * Scale
    /\ args.unit_width = 2 * Scale
    /\ args.enforce_even_units
    /\ self[1].n_units = 8

\* C7: for every constructed flat truss (Howe, Pratt, Warren) the instance's
\* end_width equals (span - n_units * panel_width) / 2 and is at least
\* min_end_fraction * panel_width.
C7_EndWidth ==
    \A t \in Inst :
        (Constructed(t) /\ Flat(args)) =>
            /\ DAdd(self[t].end_width, self[t].end_width)
                   = Double(self[t].width
                            - self[t].n_units * self[t].unit_width)
            /\ ~Less(self[t].end_width,
                     DMul(self[t].min_end_fraction,
                          Double(self[t].unit_width)))

\* C8: an attic_height below the height where the wall meets the top chord
\* (by more than the tolerance) fails at construction with the geometry
\* error; any attic_height at or above that height (the default, within the
\* tolerance of the wall height, up to or beyond the ridge) constructs a
\* truss on which validate() passes.
C8_AtticHeight ==
    (Attic(args) /\ args.width > 0 /\ PitchInRange(args)
     /\ args.overhang_length >= 0 /\ AtticWidthInRange(args)) =>
        \A t \in Inst :
            /\ AtticTooLow(args) =>
                  /\ ~PastChecks(t)
                  /\ Failed(t) => err[t] = "attic height is too low"
            /\ (IsNone(args.attic_height)
                \/ ~Less(Val(args.attic_height), WallHeight(args))) =>
                  /\ ~Failed(t)
                  /\ (Constructed(t) /\ ~Altered(t)) =>
                        Validate(self[t], heap) = "True"

\* The node and connectivity containers of instance t
Owned(t) == {self[t][attr] : attr \in ContainerAttrs}
Containers(t) == [attr \in ContainerAttrs |-> heap[self[t][attr]]]
\* Instance t executes a phase of its construction or is altered
ActsOn(t) == calls'[t] # calls[t]

\* C9: two instances constructed with identical parameters share no node or
\* connectivity container: a step that appends to or alters one instance's
\* nodes, chords, pairs or supports leaves the other's containers and its
\* validate() result unchanged.
C9_ContainersIndependent ==
    [][\A t, u \in Inst :
          (t # u /\ Constructed(u) /\ ActsOn(t)) =>
              /\ Owned(t)' \cap Owned(u)' \subseteq {0}
              /\ Containers(u)' = Containers(u)
              /\ Validate(self[u], heap)' = Validate(self[u], heap)]_vars
C9_Witness ==
    /\ Constructed(1) /\ Constructed(2)
    /\ Logged(1, "nodes")
    /\ Len(heap[self[1].nodes]) # Len(heap[self[2].nodes])
    /\ Validate(self[2], heap) = "True"
    /\ Validate(self[1], heap) = "True"

\* Every mutable container reachable from instance t
Reachable(t) ==
    {self[t][attr] : attr \in ContainerAttrs \cup SectionAttrs} \ {0}

\* C10: no mutable container reachable from an instance, its section
\* records left at their defaults included, is shared with another instance
\* or with the module-level default, so changing a section value on one
\* truss never changes it on another.
C10_NothingShared ==
    /\ \A t \in Inst : DEFAULT_TRUSS_SECTION \notin Reachable(t)
    /\ \A t, u \in Inst : t # u => Reachable(t) \cap Reachable(u) = {}
    /\ \A t, u \in Inst :
          (t # u /\ Constructed(u) /\ ~Altered(u)) =>
              \A attr \in SectionAttrs :
                  heap[self[u][attr]] = DefaultSectionCell
    /\ heap[DEFAULT_TRUSS_SECTION] = DefaultSectionCell


(***************************************************************************)
(* create_truss (truss.py:1193-1258).  A character is its code point       *)
(* (Python's ord) and a type name is the sequence of the code points of    *)
(* its characters, so that lower() and replace() act on every character    *)
(* a Python string can hold as they do in Python.                          *)
(***************************************************************************)
\* The characters str.lower() changes into one other character, by the
\* Unicode tables of the interpreter the program runs on (Unicode 14.0.0):
\* <<first, last, step, shift>> says that every step-th code point from
\* first to last lowers to itself plus shift
LowerRuns ==
    <<<<65, 90, 1, 32>>, <<192, 214, 1, 32>>, <<216, 222, 1, 32>>, <<256, 302,
      2, 1>>, <<306, 310, 2, 1>>, <<313, 327, 2, 1>>, <<330, 374, 2, 1>>, <<376,
      376, 1, -121>>, <<377, 381, 2, 1>>, <<385, 385, 1, 210>>, <<386, 388, 2,
      1>>, <<390, 390, 1, 206>>, <<391, 391, 1, 1>>, <<393, 394, 1, 205>>,
      <<395, 395, 1, 1>>, <<398, 398, 1, 79>>, <<399, 399, 1, 202>>, <<400, 400,
      1, 203>>, <<401, 401, 1, 1>>, <<403, 403, 1, 205>>, <<404, 404, 1, 207>>,
      <<406, 406, 1, 211>>, <<407, 407, 1, 209>>, <<408, 408, 1, 1>>, <<412,
      412, 1, 211>>, <<413, 413, 1, 213>>, <<415, 415, 1, 214>>, <<416, 420, 2,
      1>>, <<422, 422, 1, 218>>, <<423, 423, 1, 1>>, <<425, 425, 1, 218>>,
      <<428, 428, 1, 1>>, <<430, 430, 1, 218>>, <<431, 431, 1, 1>>, <<433, 434,
      1, 217>>, <<435, 437, 2, 1>>, <<439, 439, 1, 219>>, <<440, 440, 1, 1>>,
      <<444, 444, 1, 1>>, <<452, 452, 1, 2>>, <<453, 453, 1, 1>>, <<455, 455, 1,
      2>>, <<456, 456, 1, 1>>, <<458, 458, 1, 2>>, <<459, 475, 2, 1>>, <<478,
      494, 2, 1>>, <<497, 497, 1, 2>>, <<498, 500, 2, 1>>, <<502, 502, 1, -97>>,
      <<503, 503, 1, -56>>, <<504, 542, 2, 1>>, <<544, 544, 1, -130>>, <<546,
      562, 2, 1>>, <<570, 570, 1, 10795>>, <<571, 571, 1, 1>>, <<573, 573, 1,
      -163>>, <<574, 574, 1, 10792>>, <<577, 577, 1, 1>>, <<579, 579, 1, -195>>,
      <<580, 580, 1, 69>>, <<581, 581, 1, 71>>, <<582, 590, 2, 1>>, <<880, 882,
      2, 1>>, <<886, 886, 1, 1>>, <<895, 895, 1, 116>>, <<902, 902, 1, 38>>,
      <<904, 906, 1, 37>>, <<908, 908, 1, 64>>, <<910, 911, 1, 63>>, <<913, 929,
      1, 32>>, <<931, 939, 1, 32>>, <<975, 975, 1, 8>>, <<984, 1006, 2, 1>>,
      <<1012, 1012, 1, -60>>, <<1015, 1015, 1, 1>>, <<1017, 1017, 1, -7>>,
      <<1018, 1018, 1, 1>>, <<1021, 1023, 1, -130>>, <<1024, 1039, 1, 80>>,
      <<1040, 1071, 1, 32>>, <<1120, 1152, 2, 1>>, <<1162, 1214, 2, 1>>, <<1216,
      1216, 1, 15>>, <<1217, 1229, 2, 1>>, <<1232, 1326, 2, 1>>, <<1329, 1366,
      1, 48>>, <<4256, 4293, 1, 7264>>, <<4295, 4295, 1, 7264>>, <<4301, 4301,
      1, 7264>>, <<5024, 5103, 1, 38864>>, <<5104, 5109, 1, 8>>, <<7312, 7354,
      1, -3008>>, <<7357, 7359, 1, -3008>>, <<7680, 7828, 2, 1>>, <<7838, 7838,
      1, -7615>>, <<7840, 7934, 2, 1>>, <<7944, 7951, 1, -8>>, <<7960, 7965, 1,
      -8>>, <<7976, 7983, 1, -8>>, <<7992, 7999, 1, -8>>, <<8008, 8013, 1, -8>>,
      <<8025, 8031, 2, -8>>, <<8040, 8047, 1, -8>>, <<8072, 8079, 1, -8>>,
      <<8088, 8095, 1, -8>>, <<8104, 8111, 1, -8>>, <<8120, 8121, 1, -8>>,
      <<8122, 8123, 1, -74>>, <<8124, 8124, 1, -9>>, <<8136, 8139, 1, -86>>,
      <<8140, 8140, 1, -9>>, <<8152, 8153, 1, -8>>, <<8154, 8155, 1, -100>>,
      <<8168, 8169, 1, -8>>, <<8170, 8171, 1, -112>>, <<8172, 8172, 1, -7>>,
      <<8184, 8185, 1, -128>>, <<8186, 8187, 1, -126>>, <<8188, 8188, 1, -9>>,
      <<8486, 8486, 1, -7517>>, <<8490, 8490, 1, -8383>>, <<8491, 8491, 1,
      -8262>>, <<8498, 8498, 1, 28>>, <<8544, 8559, 1, 16>>, <<8579, 8579, 1,
      1>>, <<9398, 9423, 1, 26>>, <<11264, 11311, 1, 48>>, <<11360, 11360, 1,
      1>>, <<11362, 11362, 1, -10743>>, <<11363, 11363, 1, -3814>>, <<11364,
      11364, 1, -10727>>, <<11367, 11371, 2, 1>>, <<11373, 11373, 1, -10780>>,
      <<11374, 11374, 1, -10749>>, <<11375, 11375, 1, -10783>>, <<11376, 11376,
      1, -10782>>, <<11378, 11378, 1, 1>>, <<11381, 11381, 1, 1>>, <<11390,
      11391, 1, -10815>>, <<11392, 11490, 2, 1>>, <<11499, 11501, 2, 1>>,
      <<11506, 11506, 1, 1>>, <<42560, 42604, 2, 1>>, <<42624, 42650, 2, 1>>,
      <<42786, 42798, 2, 1>>, <<42802, 42862, 2, 1>>, <<42873, 42875, 2, 1>>,
      <<42877, 42877, 1, -35332>>, <<42878, 42886, 2, 1>>, <<42891, 42891, 1,
      1>>, <<42893, 42893, 1, -42280>>, <<42896, 42898, 2, 1>>, <<42902, 42920,
      2, 1>>, <<42922, 42922, 1, -42308>>, <<42923, 42923, 1, -42319>>, <<42924,
      42924, 1, -42315>>, <<42925, 42925, 1, -42305>>, <<42926, 42926, 1,
      -42308>>, <<42928, 42928, 1, -42258>>, <<42929, 42929, 1, -42282>>,
      <<42930, 42930, 1, -42261>>, <<42931, 42931, 1, 928>>, <<42932, 42946, 2,
      1>>, <<42948, 42948, 1, -48>>, <<42949, 42949, 1, -42307>>, <<42950,
      42950, 1, -35384>>, <<42951, 42953, 2, 1>>, <<42960, 42960, 1, 1>>,
      <<42966, 42968, 2, 1>>, <<42997, 42997, 1, 1>>, <<65313, 65338, 1, 32>>,
      <<66560, 66599, 1, 40>>, <<66736, 66771, 1, 40>>, <<66928, 66938, 1, 39>>,
      <<66940, 66954, 1, 39>>, <<66956, 66962, 1, 39>>, <<66964, 66965, 1, 39>>,
      <<68736, 68786, 1, 64>>, <<71840, 71871, 1, 32>>, <<93760, 93791, 1, 32>>,
      <<125184, 125217, 1, 34>>>>
\* The characters of a word that have a letter case, those that are
\* case-ignorable left out, as ranges <<first, last>> of code points
CasedRanges ==
    <<<<65, 90>>, <<97, 122>>, <<170, 170>>, <<181, 181>>, <<186, 186>>, <<192,
      214>>, <<216, 246>>, <<248, 442>>, <<444, 447>>, <<452, 659>>, <<661,
      687>>, <<880, 883>>, <<886, 887>>, <<891, 893>>, <<895, 895>>, <<902,
      902>>, <<904, 906>>, <<908, 908>>, <<910, 929>>, <<931, 1013>>, <<1015,
      1153>>, <<1162, 1327>>, <<1329, 1366>>, <<1376, 1416>>, <<4256, 4293>>,
      <<4295, 4295>>, <<4301, 4301>>, <<4304, 4346>>, <<4349, 4351>>, <<5024,
      5109>>, <<5112, 5117>>, <<7296, 7304>>, <<7312, 7354>>, <<7357, 7359>>,
      <<7424, 7467>>, <<7531, 7543>>, <<7545, 7578>>, <<7680, 7957>>, <<7960,
      7965>>, <<7968, 8005>>, <<8008, 8013>>, <<8016, 8023>>, <<8025, 8025>>,
      <<8027, 8027>>, <<8029, 8029>>, <<8031, 8061>>, <<8064, 8116>>, <<8118,
      8124>>, <<8126, 8126>>, <<8130, 8132>>, <<8134, 8140>>, <<8144, 8147>>,
      <<8150, 8155>>, <<8160, 8172>>, <<8178, 8180>>, <<8182, 8188>>, <<8450,
      8450>>, <<8455, 8455>>, <<8458, 8467>>, <<8469, 8469>>, <<8473, 8477>>,
      <<8484, 8484>>, <<8486, 8486>>, <<8488, 8488>>, <<8490, 8493>>, <<8495,
      8500>>, <<8505, 8505>>, <<8508, 8511>>, <<8517, 8521>>, <<8526, 8526>>,
      <<8544, 8575>>, <<8579, 8580>>, <<9398, 9449>>, <<11264, 11387>>, <<11390,
      11492>>, <<11499, 11502>>, <<11506, 11507>>, <<11520, 11557>>, <<11559,
      11559>>, <<11565, 11565>>, <<42560, 42605>>, <<42624, 42651>>, <<42786,
      42863>>, <<42865, 42887>>, <<42891, 42894>>, <<42896, 42954>>, <<42960,
      42961>>, <<42963, 42963>>, <<42965, 42969>>, <<42997, 42998>>, <<43002,
      43002>>, <<43824, 43866>>, <<43872, 43880>>, <<43888, 43967>>, <<64256,
      64262>>, <<64275, 64279>>, <<65313, 65338>>, <<65345, 65370>>, <<66560,
      66639>>, <<66736, 66771>>, <<66776, 66811>>, <<66928, 66938>>, <<66940,
      66954>>, <<66956, 66962>>, <<66964, 66965>>, <<66967, 66977>>, <<66979,
      66993>>, <<66995, 67001>>, <<67003, 67004>>, <<68736, 68786>>, <<68800,
      68850>>, <<71840, 71903>>, <<93760, 93823>>, <<119808, 119892>>, <<119894,
      119964>>, <<119966, 119967>>, <<119970, 119970>>, <<119973, 119974>>,
      <<119977, 119980>>, <<119982, 119993>>, <<119995, 119995>>, <<119997,
      120003>>, <<120005, 120069>>, <<120071, 120074>>, <<120077, 120084>>,
      <<120086, 120092>>, <<120094, 120121>>, <<120123, 120126>>, <<120128,
      120132>>, <<120134, 120134>>, <<120138, 120144>>, <<120146, 120485>>,
      <<120488, 120512>>, <<120514, 120538>>, <<120540, 120570>>, <<120572,
      120596>>, <<120598, 120628>>, <<120630, 120654>>, <<120656, 120686>>,
      <<120688, 120712>>, <<120714, 120744>>, <<120746, 120770>>, <<120772,
      120779>>, <<122624, 122633>>, <<122635, 122654>>, <<125184, 125251>>,
      <<127280, 127305>>, <<127312, 127337>>, <<127344, 127369>>>>
\* The case-ignorable characters (marks, modifiers, the apostrophe, the
\* full stop and the like), as ranges <<first, last>> of code points
CaseIgnorableRanges ==
    <<<<39, 39>>, <<46, 46>>, <<58, 58>>, <<94, 94>>, <<96, 96>>, <<168, 168>>,
      <<173, 173>>, <<175, 175>>, <<180, 180>>, <<183, 184>>, <<688, 879>>,
      <<884, 885>>, <<890, 890>>, <<900, 901>>, <<903, 903>>, <<1155, 1161>>,
      <<1369, 1369>>, <<1375, 1375>>, <<1425, 1469>>, <<1471, 1471>>, <<1473,
      1474>>, <<1476, 1477>>, <<1479, 1479>>, <<1524, 1524>>, <<1536, 1541>>,
      <<1552, 1562>>, <<1564, 1564>>, <<1600, 1600>>, <<1611, 1631>>, <<1648,
      1648>>, <<1750, 1757>>, <<1759, 1768>>, <<1770, 1773>>, <<1807, 1807>>,
      <<1809, 1809>>, <<1840, 1866>>, <<1958, 1968>>, <<2027, 2037>>, <<2042,
      2042>>, <<2045, 2045>>, <<2070, 2093>>, <<2137, 2139>>, <<2184, 2184>>,
      <<2192, 2193>>, <<2200, 2207>>, <<2249, 2306>>, <<2362, 2362>>, <<2364,
      2364>>, <<2369, 2376>>, <<2381, 2381>>, <<2385, 2391>>, <<2402, 2403>>,
      <<2417, 2417>>, <<2433, 2433>>, <<2492, 2492>>, <<2497, 2500>>, <<2509,
      2509>>, <<2530, 2531>>, <<2558, 2558>>, <<2561, 2562>>, <<2620, 2620>>,
      <<2625, 2626>>, <<2631, 2632>>, <<2635, 2637>>, <<2641, 2641>>, <<2672,
      2673>>, <<2677, 2677>>, <<2689, 2690>>, <<2748, 2748>>, <<2753, 2757>>,
      <<2759, 2760>>, <<2765, 2765>>, <<2786, 2787>>, <<2810, 2815>>, <<2817,
      2817>>, <<2876, 2876>>, <<2879, 2879>>, <<2881, 2884>>, <<2893, 2893>>,
      <<2901, 2902>>, <<2914, 2915>>, <<2946, 2946>>, <<3008, 3008>>, <<3021,
      3021>>, <<3072, 3072>>, <<3076, 3076>>, <<3132, 3132>>, <<3134, 3136>>,
      <<3142, 3144>>, <<3146, 3149>>, <<3157, 3158>>, <<3170, 3171>>, <<3201,
      3201>>, <<3260, 3260>>, <<3263, 3263>>, <<3270, 3270>>, <<3276, 3277>>,
      <<3298, 3299>>, <<3328, 3329>>, <<3387, 3388>>, <<3393, 3396>>, <<3405,
      3405>>, <<3426, 3427>>, <<3457, 3457>>, <<3530, 3530>>, <<3538, 3540>>,
      <<3542, 3542>>, <<3633, 3633>>, <<3636, 3642>>, <<3654, 3662>>, <<3761,
      3761>>, <<3764, 3772>>, <<3782, 3782>>, <<3784, 3789>>, <<3864, 3865>>,
      <<3893, 3893>>, <<3895, 3895>>, <<3897, 3897>>, <<3953, 3966>>, <<3968,
      3972>>, <<3974, 3975>>, <<3981, 3991>>, <<3993, 4028>>, <<4038, 4038>>,
      <<4141, 4144>>, <<4146, 4151>>, <<4153, 4154>>, <<4157, 4158>>, <<4184,
      4185>>, <<4190, 4192>>, <<4209, 4212>>, <<4226, 4226>>, <<4229, 4230>>,
      <<4237, 4237>>, <<4253, 4253>>, <<4348, 4348>>, <<4957, 4959>>, <<5906,
      5908>>, <<5938, 5939>>, <<5970, 5971>>, <<6002, 6003>>, <<6068, 6069>>,
      <<6071, 6077>>, <<6086, 6086>>, <<6089, 6099>>, <<6103, 6103>>, <<6109,
      6109>>, <<6155, 6159>>, <<6211, 6211>>, <<6277, 6278>>, <<6313, 6313>>,
      <<6432, 6434>>, <<6439, 6440>>, <<6450, 6450>>, <<6457, 6459>>, <<6679,
      6680>>, <<6683, 6683>>, <<6742, 6742>>, <<6744, 6750>>, <<6752, 6752>>,
      <<6754, 6754>>, <<6757, 6764>>, <<6771, 6780>>, <<6783, 6783>>, <<6823,
      6823>>, <<6832, 6862>>, <<6912, 6915>>, <<6964, 6964>>, <<6966, 6970>>,
      <<6972, 6972>>, <<6978, 6978>>, <<7019, 7027>>, <<7040, 7041>>, <<7074,
      7077>>, <<7080, 7081>>, <<7083, 7085>>, <<7142, 7142>>, <<7144, 7145>>,
      <<7149, 7149>>, <<7151, 7153>>, <<7212, 7219>>, <<7222, 7223>>, <<7288,
      7293>>, <<7376, 7378>>, <<7380, 7392>>, <<7394, 7400>>, <<7405, 7405>>,
      <<7412, 7412>>, <<7416, 7417>>, <<7468, 7530>>, <<7544, 7544>>, <<7579,
      7679>>, <<8125, 8125>>, <<8127, 8129>>, <<8141, 8143>>, <<8157, 8159>>,
      <<8173, 8175>>, <<8189, 8190>>, <<8203, 8207>>, <<8216, 8217>>, <<8228,
      8228>>, <<8231, 8231>>, <<8234, 8238>>, <<8288, 8292>>, <<8294, 8303>>,
      <<8305, 8305>>, <<8319, 8319>>, <<8336, 8348>>, <<8400, 8432>>, <<11388,
      11389>>, <<11503, 11505>>, <<11631, 11631>>, <<11647, 11647>>, <<11744,
      11775>>, <<11823, 11823>>, <<12293, 12293>>, <<12330, 12333>>, <<12337,
      12341>>, <<12347, 12347>>, <<12441, 12446>>, <<12540, 12542>>, <<40981,
      40981>>, <<42232, 42237>>, <<42508, 42508>>, <<42607, 42610>>, <<42612,
      42621>>, <<42623, 42623>>, <<42652, 42655>>, <<42736, 42737>>, <<42752,
      42785>>, <<42864, 42864>>, <<42888, 42890>>, <<42994, 42996>>, <<43000,
      43001>>, <<43010, 43010>>, <<43014, 43014>>, <<43019, 43019>>, <<43045,
      43046>>, <<43052, 43052>>, <<43204, 43205>>, <<43232, 43249>>, <<43263,
      43263>>, <<43302, 43309>>, <<43335, 43345>>, <<43392, 43394>>, <<43443,
      43443>>, <<43446, 43449>>, <<43452, 43453>>, <<43471, 43471>>, <<43493,
      43494>>, <<43561, 43566>>, <<43569, 43570>>, <<43573, 43574>>, <<43587,
      43587>>, <<43596, 43596>>, <<43632, 43632>>, <<43644, 43644>>, <<43696,
      43696>>, <<43698, 43700>>, <<43703, 43704>>, <<43710, 43711>>, <<43713,
      43713>>, <<43741, 43741>>, <<43756, 43757>>, <<43763, 43764>>, <<43766,
      43766>>, <<43867, 43871>>, <<43881, 43883>>, <<44005, 44005>>, <<44008,
      44008>>, <<44013, 44013>>, <<64286, 64286>>, <<64434, 64450>>, <<65024,
      65039>>, <<65043, 65043>>, <<65056, 65071>>, <<65106, 65106>>, <<65109,
      65109>>, <<65279, 65279>>, <<65287, 65287>>, <<65294, 65294>>, <<65306,
      65306>>, <<65342, 65342>>, <<65344, 65344>>, <<65392, 65392>>, <<65438,
      65439>>, <<65507, 65507>>, <<65529, 65531>>, <<66045, 66045>>, <<66272,
      66272>>, <<66422, 66426>>, <<67456, 67461>>, <<67463, 67504>>, <<67506,
      67514>>, <<68097, 68099>>, <<68101, 68102>>, <<68108, 68111>>, <<68152,
      68154>>, <<68159, 68159>>, <<68325, 68326>>, <<68900, 68903>>, <<69291,
      69292>>, <<69446, 69456>>, <<69506, 69509>>, <<69633, 69633>>, <<69688,
      69702>>, <<69744, 69744>>, <<69747, 69748>>, <<69759, 69761>>, <<69811,
      69814>>, <<69817, 69818>>, <<69821, 69821>>, <<69826, 69826>>, <<69837,
      69837>>, <<69888, 69890>>, <<69927, 69931>>, <<69933, 69940>>, <<70003,
      70003>>, <<70016, 70017>>, <<70070, 70078>>, <<70089, 70092>>, <<70095,
      70095>>, <<70191, 70193>>, <<70196, 70196>>, <<70198, 70199>>, <<70206,
      70206>>, <<70367, 70367>>, <<70371, 70378>>, <<70400, 70401>>, <<70459,
      70460>>, <<70464, 70464>>, <<70502, 70508>>, <<70512, 70516>>, <<70712,
      70719>>, <<70722, 70724>>, <<70726, 70726>>, <<70750, 70750>>, <<70835,
      70840>>, <<70842, 70842>>, <<70847, 70848>>, <<70850, 70851>>, <<71090,
      71093>>, <<71100, 71101>>, <<71103, 71104>>, <<71132, 71133>>, <<71219,
      71226>>, <<71229, 71229>>, <<71231, 71232>>, <<71339, 71339>>, <<71341,
      71341>>, <<71344, 71349>>, <<71351, 71351>>, <<71453, 71455>>, <<71458,
      71461>>, <<71463, 71467>>, <<71727, 71735>>, <<71737, 71738>>, <<71995,
      71996>>, <<71998, 71998>>, <<72003, 72003>>, <<72148, 72151>>, <<72154,
      72155>>, <<72160, 72160>>, <<72193, 72202>>, <<72243, 72248>>, <<72251,
      72254>>, <<72263, 72263>>, <<72273, 72278>>, <<72281, 72283>>, <<72330,
      72342>>, <<72344, 72345>>, <<72752, 72758>>, <<72760, 72765>>, <<72767,
      72767>>, <<72850, 72871>>, <<72874, 72880>>, <<72882, 72883>>, <<72885,
      72886>>, <<73009, 73014>>, <<73018, 73018>>, <<73020, 73021>>, <<73023,
      73029>>, <<73031, 73031>>, <<73104, 73105>>, <<73109, 73109>>, <<73111,
      73111>>, <<73459, 73460>>, <<78896, 78904>>, <<92912, 92916>>, <<92976,
      92982>>, <<92992, 92995>>, <<94031, 94031>>, <<94095, 94111>>, <<94176,
      94177>>, <<94179, 94180>>, <<110576, 110579>>, <<110581, 110587>>,
      <<110589, 110590>>, <<113821, 113822>>, <<113824, 113827>>, <<118528,
      118573>>, <<118576, 118598>>, <<119143, 119145>>, <<119155, 119170>>,
      <<119173, 119179>>, <<119210, 119213>>, <<119362, 119364>>, <<121344,
      121398>>, <<121403, 121452>>, <<121461, 121461>>, <<121476, 121476>>,
      <<121499, 121503>>, <<121505, 121519>>, <<122880, 122886>>, <<122888,
      122904>>, <<122907, 122913>>, <<122915, 122916>>, <<122918, 122922>>,
      <<123184, 123197>>, <<123566, 123566>>, <<123628, 123631>>, <<125136,
      125142>>, <<125252, 125259>>, <<127995, 127999>>, <<917505, 917505>>,
      <<917536, 917631>>, <<917760, 917999>>>>
InRun(c, run) == run[1] <= c /\ c <= run[2] /\ (c - run[1]) % run[3] = 0
InRange(c, range) == range[1] <= c /\ c <= range[2]
Cased(c) == \E i \in 1..Len(CasedRanges) : InRange(c, CasedRanges[i])
CaseIgnorable(c) ==
    \E i \in 1..Len(CaseIgnorableRanges) : InRange(c, CaseIgnorableRanges[i])

\* str.lower() on the one-character string of c: the characters it gives.
\* The capital I with a dot above (U+0130) lowers to two characters, an i
\* and a combining dot above.
ToLower(c) ==
    IF c = 304 THEN <<105, 775>>
    ELSE IF \E i \in 1..Len(LowerRuns) : InRun(c, LowerRuns[i])
    THEN <<c + LowerRuns[CHOOSE i \in 1..Len(LowerRuns) :
                             InRun(c, LowerRuns[i])][4]>>
    ELSE <<c>>

\* The nearest position at or before j, and at or after j, whose character
\* is not case-ignorable: 0 and Len(s) + 1 when there is none
RECURSIVE Before(_, _)
Before(s, j) ==
    IF j = 0 \/ ~CaseIgnorable(s[j]) THEN j ELSE Before(s, j - 1)
RECURSIVE After(_, _)
After(s, j) ==
    IF j > Len(s) \/ ~CaseIgnorable(s[j]) THEN j ELSE After(s, j + 1)
\* A capital sigma (U+03A3) at position i ends a word: a cased character
\* comes before it and none after it, case-ignorable characters skipped.
\* str.lower() then writes the final sigma (U+03C2) for it.
FinalSigma(s, i) ==
    /\ Before(s, i - 1) >= 1
    /\ Cased(s[Before(s, i - 1)])
    /\ \/ After(s, i + 1) > Len(s)
       \/ ~Cased(s[After(s, i + 1)])

\* The parts joined in order: ''.join(parts[:n])
RECURSIVE Joined(_, _)
Joined(parts, n) ==
    IF n = 0 THEN <<>> ELSE Joined(parts, n - 1) \o parts[n]

\* s.lower()
Lower(s) ==
    Joined([i \in 1..Len(s) |->
               IF s[i] = 931 /\ FinalSigma(s, i) THEN <<962>>
               ELSE ToLower(s[i])],
           Len(s))

\* s.replace(old, new) for one-character old and new
Replace(s, old, new) ==
    [i \in 1..Len(s) |-> IF s[i] = old THEN new ELSE s[i]]

\* truss_type.lower().replace("-", "_").replace(" ", "_") (truss.py:1218):
\* "-" is 45, " " is 32 and "_" is 95
Normalize(truss_type_name) ==
    Replace(Replace(Lower(truss_type_name), 45, 95), 32, 95)

\* truss_map (truss.py:1221-1248): normalized name, class
truss_map ==
    <<<<<<104, 111, 119, 101>>,  \* "howe"
        "HoweFlatTruss">>,
      <<<<104, 111, 119, 101, 95, 102, 108, 97, 116>>,  \* "howe_flat"
        "HoweFlatTruss">>,
      <<<<112, 114, 97, 116, 116>>,  \* "pratt"
        "PrattFlatTruss">>,
      <<<<112, 114, 97, 116, 116, 95, 102, 108, 97, 116>>,  \* "pratt_flat"
        "PrattFlatTruss">>,
      <<<<119, 97, 114, 114, 101, 110>>,  \* "warren"
        "WarrenFlatTruss">>,
      <<<<119, 97, 114, 114, 101, 110, 95, 102, 108, 97, 116>>,  \* "warren_flat"
        "WarrenFlatTruss">>,
      <<<<107, 105, 110, 103, 95, 112, 111, 115, 116>>,  \* "king_post"
        "KingPostRoofTruss">>,
      <<<<107, 105, 110, 103, 112, 111, 115, 116>>,  \* "kingpost"
        "KingPostRoofTruss">>,
      <<<<113, 117, 101, 101, 110, 95, 112, 111, 115, 116>>,  \* "queen_post"
        "QueenPostRoofTruss">>,
      <<<<113, 117, 101, 101, 110, 112, 111, 115, 116>>,  \* "queenpost"
        "QueenPostRoofTruss">>,
      <<<<102, 105, 110, 107>>,  \* "fink"
        "FinkRoofTruss">>,
      <<<<104, 111, 119, 101, 95, 114, 111, 111, 102>>,  \* "howe_roof"
        "HoweRoofTruss">>,
      <<<<112, 114, 97, 116, 116, 95, 114, 111, 111, 102>>,  \* "pratt_roof"
        "PrattRoofTruss">>,
      <<<<102, 97, 110>>,  \* "fan"
        "FanRoofTruss">>,
      <<<<109, 111, 100, 105, 102, 105, 101, 100, 95, 113, 117, 101, 101, 110, 95, 112, 111, 115, 116>>,  \* "modified_queen_post"
        "ModifiedQueenPostRoofTruss">>,
      <<<<109, 111, 100, 105, 102, 105, 101, 100, 95, 113, 117, 101, 101, 110, 112, 111, 115, 116>>,  \* "modified_queenpost"
        "ModifiedQueenPostRoofTruss">>,
      <<<<100, 111, 117, 98, 108, 101, 95, 102, 105, 110, 107>>,  \* "double_fink"
        "DoubleFinkRoofTruss">>,
      <<<<100, 111, 117, 98, 108, 101, 102, 105, 110, 107>>,  \* "doublefink"
        "DoubleFinkRoofTruss">>,
      <<<<100, 111, 117, 98, 108, 101, 95, 104, 111, 119, 101>>,  \* "double_howe"
        "DoubleHoweRoofTruss">>,
      <<<<100, 111, 117, 98, 108, 101, 104, 111, 119, 101>>,  \* "doublehowe"
        "DoubleHoweRoofTruss">>,
      <<<<109, 111, 100, 105, 102, 105, 101, 100, 95, 102, 97, 110>>,  \* "modified_fan"
        "ModifiedFanRoofTruss">>,
      <<<<109, 111, 100, 105, 102, 105, 101, 100, 102, 97, 110>>,  \* "modifiedfan"
        "ModifiedFanRoofTruss">>,
      <<<<97, 116, 116, 105, 99>>,  \* "attic"
        "AtticRoofTruss">>,
      <<<<97, 116, 116, 105, 99, 95, 114, 111, 111, 102>>,  \* "attic_roof"
        "AtticRoofTruss">>>>

\* normalized in truss_map / truss_map[normalized] (truss.py:1250-1256)
InTrussMap(normalized) ==
    \E i \in 1..Len(truss_map) : truss_map[i][1] = normalized
TrussClass(normalized) ==
    truss_map[CHOOSE i \in 1..Len(truss_map) :
                  truss_map[i][1] = normalized][2]

\* The names of the catalogue as the docstring of create_truss lists them
\* (truss.py:1199-1204), by class
CatalogueName(cls) ==
    CASE cls = "HoweFlatTruss" ->
            <<104, 111, 119, 101>>  \* "howe"
      [] cls = "PrattFlatTruss" ->
            <<112, 114, 97, 116, 116>>  \* "pratt"
      [] cls = "WarrenFlatTruss" ->
            <<119, 97, 114, 114, 101, 110>>  \* "warren"
      [] cls = "KingPostRoofTruss" ->
            <<107, 105, 110, 103, 95, 112, 111, 115, 116>>  \* "king_post"
      [] cls = "QueenPostRoofTruss" ->
            <<113, 117, 101, 101, 110, 95, 112, 111, 115, 116>>  \* "queen_post"
      [] cls = "FinkRoofTruss" ->
            <<102, 105, 110, 107>>  \* "fink"
      [] cls = "HoweRoofTruss" ->
            <<104, 111, 119, 101, 95, 114, 111, 111, 102>>  \* "howe_roof"
      [] cls = "PrattRoofTruss" ->
            <<112, 114, 97, 116, 116, 95, 114, 111, 111, 102>>  \* "pratt_roof"
      [] cls = "FanRoofTruss" ->
            <<102, 97, 110>>  \* "fan"
      [] cls = "ModifiedQueenPostRoofTruss" ->
            <<109, 111, 100, 105, 102, 105, 101, 100, 95, 113, 117, 101, 101, 110, 95, 112, 111, 115, 116>>  \* "modified_queen_post"
      [] cls = "DoubleFinkRoofTruss" ->
            <<100, 111, 117, 98, 108, 101, 95, 102, 105, 110, 107>>  \* "double_fink"
      [] cls = "DoubleHoweRoofTruss" ->
            <<100, 111, 117, 98, 108, 101, 95, 104, 111, 119, 101>>  \* "double_howe"
      [] cls = "ModifiedFanRoofTruss" ->
            <<109, 111, 100, 105, 102, 105, 101, 100, 95, 102, 97, 110>>  \* "modified_fan"
      [] cls = "AtticRoofTruss" ->
            <<97, 116, 116, 105, 99>>  \* "attic"

\* The ways of writing a catalogue name: its underscores (95) kept,
\* replaced by hyphens (45) or by spaces (32), or removed; in lower case, in
\* capitals, capitalized, or in capitals with the Kelvin sign (U+212A) for
\* the K
Separators == {<<95>>, <<45>>, <<32>>, <<>>}
LetterCases == {"lower", "upper", "capitalized", "kelvin_sign"}
RECURSIVE WithSeparator(_, _)
WithSeparator(name, sep) ==
    IF name = <<>> THEN <<>>
    ELSE (IF Head(name) = 95 THEN sep ELSE <<Head(name)>>)
         \o WithSeparator(Tail(name), sep)
\* The capital of a letter a to z, as a caller writes it; the catalogue
\* names hold no other letters
Capital(c) == IF c \in 97..122 THEN c - 32 ELSE c
InLetterCase(name, k) ==
    [i \in 1..Len(name) |->
        IF k = "kelvin_sign" /\ name[i] = 107 THEN 8490
        ELSE IF k \in {"upper", "kelvin_sign"}
                \/ (k = "capitalized" /\ i = 1) THEN Capital(name[i])
        ELSE name[i]]
NameVariants(cls) ==
    {InLetterCase(WithSeparator(CatalogueName(cls), sep), k) :
        sep \in Separators, k \in LetterCases}

\* The keyword arguments given to the factory: for every class one valid
\* geometry with every optional argument at its default
FactoryArgs ==
    {a \in InitArgs :
        /\ ValidArgs(a)
        /\ a.width = (IF Flat(a) THEN MaxSpan * Scale ELSE 12 * Scale)
        /\ a.end_type = (IF Flat(a) THEN "triangle_down" ELSE "flat")
        /\ a.supports_loc = "bottom_chord"
        /\ a.min_end_fraction = Half
        /\ a.enforce_even_units
        /\ Roof(a) => a.roof_pitch_deg = 3687 /\ a.overhang_length = 0
        /\ Attic(a) => a.attic_width = 4 * Scale /\ IsNone(a.attic_height)}

\* create_truss(truss_type, **kwargs) up to the constructor call: the class
\* is looked up under the normalized name
create_truss(t) ==
    /\ pc[t] = "idle"
    /\ truss_type[t] # <<>>
    /\ \A u \in Inst : u < t => pc[u] \in {"done", "failed"}
    /\ LET normalized == Normalize(truss_type[t])
       IN  IF ~InTrussMap(normalized)
           THEN /\ pc' = [pc EXCEPT ![t] = "failed"]
                /\ err' = [err EXCEPT ![t] = "Unknown truss type"]
                /\ UNCHANGED <<self, frame>>
           ELSE /\ pc' = [pc EXCEPT ![t] =
                              EntryPoint(TrussClass(normalized))]
                /\ self' = [self EXCEPT ![t] =
                                BlankSelf(TrussClass(normalized))]
                /\ frame' = [frame EXCEPT ![t] = BlankFrame(args)]
                /\ UNCHANGED err
    /\ UNCHANGED <<usage, args, heap, system, calls, vres>>

\* Two calls of the factory with equal keyword arguments: the first with
\* the catalogue name of a topology, the second with one of the ways of
\* writing it
FactoryInit ==
    /\ args \in FactoryArgs
    /\ truss_type \in {<<CatalogueName(args.cls), v>> :
                           v \in NameVariants(args.cls)}
    /\ Start

\* Everything Truss.__init__ and the __init__ chain above it execute
Construction(t) ==
    \/ WarrenFlatTruss__init__(t)
    \/ FlatTruss__init__(t)
    \/ AtticRoofTruss__init__(t)
    \/ RoofTruss__init__(t)
    \/ Truss__init__(t)
    \/ define_nodes(t)
    \/ define_connectivity(t)
    \/ define_supports(t)
    \/ SystemElements(t)
    \/ add_nodes(t)
    \/ add_elements(t)
    \/ add_supports(t)
    \/ WarrenFlatTruss_end_width(t)

FactoryNext == \E t \in Inst : create_truss(t) \/ Construction(t)
FactorySpec == FactoryInit /\ [][FactoryNext]_vars

\* The connectivity of instance t: chords, diagonals, verticals
Connectivity(t) ==
    <<heap[self[t].bottom_chord_node_ids], heap[self[t].top_chord_node_ids],
      heap[self[t].web_node_pairs], heap[self[t].web_verticals_node_pairs]>>

\* C11: the name of every topology of the catalogue, written with
\* underscores, hyphens, spaces or no separator, in any letter case, is
\* resolved by create_truss to that topology's class, and with equal
\* parameters the truss has the node count and the connectivity of the one
\* created under the catalogue name.
C11_NameInsensitive ==
    \A t \in Inst :
        truss_type[t] # <<>> =>
            /\ err[t] # "Unknown truss type"
            /\ pc[t] \notin {"idle", "failed"} => self[t].cls = args.cls
            /\ (Constructed(1) /\ Constructed(t)) =>
                  /\ Len(heap[self[t].nodes]) = Len(heap[self[1].nodes])
                  /\ Connectivity(t) = Connectivity(1)


(***************************************************************************)
(* Chord queries and chord loads (truss_class.py:306-420).                 *)
(* SystemElements.q_load is not part of the sources: the model keeps the   *)
(* requests it receives, in order, each with its arguments as passed.      *)
(***************************************************************************)
\* The lookup returning only the first segment of a segmented chord when no
\* segment is named (faulty variant)
ElementIdsLookupFirstSegment(c, chord_segment) ==
    IF c.segmented
    THEN IF IsNone(chord_segment)
         THEN [value |-> c.ids[1], err |-> "none", available |-> <<>>]
         ELSE IF ~\E k \in 1..Len(c.names) : c.names[k] = Val(chord_segment)
         THEN [value |-> <<>>, err |-> "chord_segment not found",
               available |-> c.names]
         ELSE [value |-> c.ids[CHOOSE k \in 1..Len(c.names) :
                                   c.names[k] = Val(chord_segment)],
               err |-> "none", available |-> <<>>]
    ELSE [value |-> c.ids[1], err |-> "none", available |-> <<>>]

\* The lookup both branches of get_element_ids_of_chord perform on
\* self.<chord>_chord_element_ids (truss_class.py:325-338, 341-354)
ElementIdsLookup(c, chord_segment) ==
    IF c.segmented
    THEN IF IsNone(chord_segment)
         THEN [value |-> ChordIds(c), err |-> "none", available |-> <<>>]
         ELSE IF ~\E k \in 1..Len(c.names) : c.names[k] = Val(chord_segment)
         THEN [value |-> <<>>, err |-> "chord_segment not found",
               available |-> c.names]
         ELSE [value |-> c.ids[CHOOSE k \in 1..Len(c.names) :
                                   c.names[k] = Val(chord_segment)],
               err |-> "none", available |-> <<>>]
    ELSE [value |-> c.ids[1], err |-> "none", available |-> <<>>]

\* Truss.get_element_ids_of_chord (truss_class.py:306-356)
GetElementIdsOfChord(s, h, chord, chord_segment) ==
    IF chord = "top"
    THEN ElementIdsLookup(h[s.top_chord_element_ids], chord_segment)
    ELSE IF chord = "bottom"
    THEN ElementIdsLookup(h[s.bottom_chord_element_ids], chord_segment)
    ELSE [value |-> <<>>, err |-> "chord must be either 'top' or 'bottom'",
          available |-> <<>>]

\* Python values of the load arguments: a number or string, a sequence of
\* them, or None
Scalar(v) == [kind |-> "scalar", value |-> <<v>>]
Sequence(vs) == [kind |-> "sequence", value |-> vs]
Absent == [kind |-> "None", value |-> <<>>]

\* self.system.q_load(element_id=el_id, q=q, direction=direction,
\* rotation=rotation, q_perp=q_perp) (truss_class.py:382-388, 414-420)
QLoad(el_id, q, direction, rotation, q_perp) ==
    [element_id |-> el_id, q |-> q, direction |-> direction,
     rotation |-> rotation, q_perp |-> q_perp]

\* The body shared by apply_q_load_to_top_chord and
\* apply_q_load_to_bottom_chord (truss_class.py:378-388, 410-420): the model
\* after the loop, and the error get_element_ids_of_chord raised
ApplyQLoadToChord(s, h, sys, chord, q, direction, rotation, q_perp, chord_segment) ==
    LET r == GetElementIdsOfChord(s, h, chord, chord_segment)
    IN  IF r.err # "none"
        THEN [system |-> sys, err |-> r.err, available |-> r.available]
        ELSE [system |->
                 [sys EXCEPT !.loads =
                     @ \o [i \in 1..Len(r.value) |->
                              QLoad(r.value[i], q, direction, rotation,
                                    q_perp)]],
              err |-> "none", available |-> <<>>]

\* The arguments the caller gives: one value for every member, or one value
\* per member of the n members of the chord or segment addressed
LoadArguments(given, n) ==
    IF given = "single"
    THEN [q |-> Scalar(-10), direction |-> Scalar("y"),
          rotation |-> Absent, q_perp |-> Absent]
    ELSE [q |-> Sequence([i \in 1..n |-> -i]),
          direction |-> Sequence([i \in 1..n |->
                                     IF i % 2 = 1 THEN "y" ELSE "x"]),
          rotation |-> Sequence([i \in 1..n |-> 10 * i]),
          q_perp |-> Sequence([i \in 1..n |-> i])]
Givens == {"single", "per_member"}

\* The chords and segments a caller may name
ChordNames == {"top", "bottom", "web"}
ChordSegments == {None, Some("left"), Some("right"), Some("ceiling"),
                  Some("nonexistent_segment")}

\* How many chord-load calls instance t has made
LoadCalls(t) ==
    Len(SelectSeq(calls[t],
                  LAMBDA c : c \in {"apply_q_load_to_top_chord",
                                    "apply_q_load_to_bottom_chord"}))
\* at most this many chord-load calls per truss
MaxLoadCalls == 1

\* truss.get_element_ids_of_chord(chord, chord_segment)
get_element_ids_of_chord(t, chord, chord_segment) ==
    /\ Constructed(t)
    /\ LET r == GetElementIdsOfChord(self[t], heap, chord, chord_segment)
       IN  ret' = [ret EXCEPT ![t] =
                      [call |-> "get_element_ids_of_chord", chord |-> chord,
                       chord_segment |-> chord_segment, given |-> "",
                       value |-> r.value, err |-> r.err,
                       available |-> r.available,
                       base |-> Len(system[t].loads)]]
    /\ UNCHANGED <<vertices, expr, args, pc, frame, self, heap, system, err, calls, vres,
                   truss_type, loadcases, combination, results>>

\* One chord-load call on the chord `chord`
ChordLoadCall(t, method, chord, given, chord_segment) ==
    /\ Constructed(t)
    /\ LET ids == GetElementIdsOfChord(self[t], heap, chord, chord_segment)
           a == LoadArguments(given, Len(ids.value))
           r == ApplyQLoadToChord(self[t], heap, system[t], chord, a.q,
                                  a.direction, a.rotation, a.q_perp,
                                  chord_segment)
       IN  /\ system' = [system EXCEPT ![t] = r.system]
           /\ ret' = [ret EXCEPT ![t] =
                         [call |-> method, chord |-> chord,
                          chord_segment |-> chord_segment, given |-> given,
                          value |-> <<>>, err |-> r.err,
                          available |-> r.available,
                          base |-> Len(system[t].loads)]]
    /\ calls' = [calls EXCEPT ![t] = Append(@, method)]
    /\ UNCHANGED <<vertices, expr, args, pc, frame, self, heap, err, vres, truss_type,
                   loadcases, combination, results>>

\* truss.apply_q_load_to_top_chord(q, direction, rotation, q_perp,
\* chord_segment)
apply_q_load_to_top_chord(t, given, chord_segment) ==
    /\ LoadCalls(t) < MaxLoadCalls
    /\ ChordLoadCall(t, "apply_q_load_to_top_chord", "top", given,
                     chord_segment)

\* truss.apply_q_load_to_bottom_chord(q, direction, rotation, q_perp,
\* chord_segment)
apply_q_load_to_bottom_chord(t, given, chord_segment) ==
    /\ LoadCalls(t) < MaxLoadCalls
    /\ ChordLoadCall(t, "apply_q_load_to_bottom_chord", "bottom", given,
                     chord_segment)

\* The trusses the chord operations are exercised on: every topology, the
\* flat ones with every end type, the roof ones without and with overhang,
\* the attic with the ceiling at, above and clear of the wall height
ChordArgs ==
    {a \in InitArgs :
        /\ ValidArgs(a)
        /\ Flat(a) => /\ a.width = MaxSpan * Scale
                      /\ a.supports_loc = "bottom_chord"
                      /\ a.min_end_fraction = Half
                      /\ a.enforce_even_units
        /\ Roof(a) => a.roof_pitch_deg = 3687
        /\ (Roof(a) /\ ~Attic(a)) =>
              (a.overhang_length = 0
               \/ a.cls \in {"KingPostRoofTruss", "FinkRoofTruss"})
        /\ Attic(a) =>
              /\ a.attic_width = 4 * Scale
              /\ \/ IsNone(a.attic_height)
                 \/ /\ ~IsNone(a.attic_height)
                    /\ Less(DAdd(WallHeight(a), Double(tolerance)),
                            Val(a.attic_height))
                    /\ Less(Val(a.attic_height),
                            PeakY(a.width, a.roof_pitch_deg))}

\* One truss is constructed, then queried and loaded
Users == {1}
ChordInit ==
    /\ args \in ChordArgs
    /\ truss_type = [t \in Inst |-> <<>>]
    /\ Start
ChordNext ==
    \E t \in Users :
        \/ Construct(t)
        \/ Construction(t)
        \/ \E chord \in ChordNames, chord_segment \in ChordSegments :
              get_element_ids_of_chord(t, chord, chord_segment)
        \/ \E given \in Givens, chord_segment \in ChordSegments :
              apply_q_load_to_top_chord(t, given, chord_segment)
        \/ \E given \in Givens, chord_segment \in ChordSegments :
              apply_q_load_to_bottom_chord(t, given, chord_segment)
ChordSpec == ChordInit /\ [][ChordNext]_vars


\* The node-id chord and the element-id chord a chord name denotes
NodeChord(t, chord) ==
    heap[IF chord = "top" THEN self[t].top_chord_node_ids
         ELSE self[t].bottom_chord_node_ids]
ElementChord(t, chord) ==
    heap[IF chord = "top" THEN self[t].top_chord_element_ids
         ELSE self[t].bottom_chord_element_ids]
\* ids are the members that join the consecutive nodes of the node list seg
JoinsConsecutive(t, ids, seg) ==
    /\ Len(ids) = Len(seg) - 1
    /\ \A i \in 1..Len(ids) :
          /\ ids[i] \in 1..Len(system[t].element_map)
          /\ system[t].element_map[ids[i]].location
                 = <<heap[self[t].nodes][seg[i] + 1],
                     heap[self[t].nodes][seg[i + 1] + 1]>>
\* The number of members in the segments before the k-th
RECURSIVE MembersBefore(_, _)
MembersBefore(c, k) ==
    IF k <= 1 THEN 0
    ELSE MembersBefore(c, k - 1) + Len(c.ids[k - 1]) - 1
\* The last call was get_element_ids_of_chord on the top or bottom chord
Queried(t) ==
    /\ ret[t].call = "get_element_ids_of_chord"
    /\ ret[t].chord \in {"top", "bottom"}
\* The chord has a segment of that name
HasSegment(c, chord_segment) ==
    /\ c.segmented
    /\ ~IsNone(chord_segment)
    /\ \E k \in 1..Len(c.names) : c.names[k] = Val(chord_segment)

\* C12: on a segmented chord get_element_ids_of_chord without a segment
\* returns the member ids of all segments concatenated in insertion order
\* (left, right, then ceiling for the attic); with a named segment it
\* returns exactly the member ids of that segment; the member ids of
\* different segments are pairwise disjoint.
C12_SegmentedChordIds ==
    \A t \in Users :
        (Queried(t) /\ NodeChord(t, ret[t].chord).segmented) =>
            LET c == NodeChord(t, ret[t].chord)
                e == ElementChord(t, ret[t].chord)
                v == ret[t].value
            IN  /\ c.names = IF Attic(args) THEN <<"left", "right", "ceiling">>
                             ELSE <<"left", "right">>
                /\ IsNone(ret[t].chord_segment) =>
                      /\ ret[t].err = "none"
                      /\ Len(v) = MembersBefore(c, Len(c.ids) + 1)
                      /\ \A k \in 1..Len(c.ids) :
                            JoinsConsecutive(t,
                                SubSeq(v, MembersBefore(c, k) + 1,
                                       MembersBefore(c, k + 1)),
                                c.ids[k])
                      /\ Cardinality(SeqSet(v)) = Len(v)
                /\ HasSegment(c, ret[t].chord_segment) =>
                      /\ ret[t].err = "none"
                      /\ \A k \in 1..Len(c.names) :
                            c.names[k] = Val(ret[t].chord_segment) =>
                                JoinsConsecutive(t, v, c.ids[k])
                /\ \A j, k \in 1..Len(e.ids) :
                      j # k => SeqSet(e.ids[j]) \cap SeqSet(e.ids[k]) = {}
C12_Witness ==
    \E t \in Users :
        /\ Queried(t)
        /\ Attic(args)
        /\ ret[t].chord = "top"
        /\ IsNone(ret[t].chord_segment)
        /\ Len(NodeChord(t, "top").names) = 3
        /\ Len(ret[t].value) > Len(NodeChord(t, "top").ids[1])

\* C13: for both chords, flat list or segmented, get_element_ids_of_chord
\* with a segment name the chord does not have fails with the lookup error,
\* which lists the chord's segment names, and returns no member ids.
C13_UnknownSegmentFails ==
    \A t \in Users :
        (Queried(t) /\ ~IsNone(ret[t].chord_segment)
         /\ ~HasSegment(NodeChord(t, ret[t].chord), ret[t].chord_segment)) =>
            /\ ret[t].err = "chord_segment not found"
            /\ ret[t].value = <<>>
            /\ ret[t].available = NodeChord(t, ret[t].chord).names


\* The last call was one of the chord-load operations
Loaded(t) ==
    ret[t].call \in {"apply_q_load_to_top_chord",
                     "apply_q_load_to_bottom_chord"}
\* The requests the last chord-load call forwarded to the model
Forwarded(t) ==
    SubSeq(system[t].loads, ret[t].base + 1, Len(system[t].loads))
\* The members of the chord or segment the last call addressed: the members
\* joining the consecutive nodes of the segment, or of every segment in turn
Addressed(t) ==
    LET c == NodeChord(t, ret[t].chord)
        e == ElementChord(t, ret[t].chord)
    IN  IF IsNone(ret[t].chord_segment) THEN ChordIds(e)
        ELSE e.ids[CHOOSE k \in 1..Len(c.names) :
                       c.names[k] = Val(ret[t].chord_segment)]

\* C14: apply_q_load_to_top_chord and apply_q_load_to_bottom_chord forward
\* exactly one load request to the model for each member of the resolved
\* chord or segment and to no other member; with a segment the chord does
\* not have they fail before any load is applied.
C14_OneRequestPerMember ==
    \A t \in Users :
        Loaded(t) =>
            LET c == NodeChord(t, ret[t].chord)
                f == Forwarded(t)
            IN  IF IsNone(ret[t].chord_segment)
                   \/ HasSegment(c, ret[t].chord_segment)
                THEN /\ ret[t].err = "none"
                     /\ Len(f) = Len(Addressed(t))
                     /\ {f[i].element_id : i \in 1..Len(f)}
                            = SeqSet(Addressed(t))
                     /\ Cardinality(SeqSet(Addressed(t))) = Len(f)
                ELSE /\ ret[t].err = "chord_segment not found"
                     /\ f = <<>>

\* C15: a single value is applied to every member; a sequence as long as
\* the number of members gives the i-th member its i-th value, and
\* direction, rotation and q_perp follow the same rule.
C15_PerMemberValues ==
    \A t \in Users :
        (Loaded(t) /\ ret[t].err = "none") =>
            LET f == Forwarded(t)
                a == LoadArguments(ret[t].given, Len(f))
                Ith(v, i) == IF v.kind = "sequence" THEN Scalar(v.value[i])
                             ELSE v
            IN  \A i \in 1..Len(f) :
                    /\ f[i].q = Ith(a.q, i)
                    /\ f[i].direction = Ith(a.direction, i)
                    /\ f[i].rotation = Ith(a.rotation, i)
                    /\ f[i].q_perp = Ith(a.q_perp, i)


(***************************************************************************)
(* Assembly of members and supports (truss_class.py:181-294, 670-695,      *)
(* 779-794)                                                                *)
(***************************************************************************)
\* The element map em holds, for the truss s with its containers in h, one
\* member per consecutive node pair of every bottom chord segment, then of
\* every top chord segment, each pinned unless its chord is continuous, then
\* one pinned member per diagonal pair and one per vertical pair
Assembled(s, h, em) ==
    LET nodes == h[s.nodes]
        b == h[s.bottom_chord_node_ids]
        tp == h[s.top_chord_node_ids]
        web == h[s.web_node_pairs]
        vert == h[s.web_verticals_node_pairs]
        nb == MembersBefore(b, Len(b.ids) + 1)
        nt == MembersBefore(tp, Len(tp.ids) + 1)
        Member(e, i, j, pinned) ==
            /\ e \in 1..Len(em)
            /\ em[e].id = e
            /\ em[e].location = <<nodes[i + 1], nodes[j + 1]>>
            /\ em[e].pinned = pinned
    IN  /\ Len(em) = nb + nt + Len(web) + Len(vert)
        /\ \A k \in 1..Len(b.ids) : \A i \in 1..(Len(b.ids[k]) - 1) :
              Member(MembersBefore(b, k) + i, b.ids[k][i], b.ids[k][i + 1],
                     ~s.bottom_chord_continuous)
        /\ \A k \in 1..Len(tp.ids) : \A i \in 1..(Len(tp.ids[k]) - 1) :
              Member(nb + MembersBefore(tp, k) + i, tp.ids[k][i],
                     tp.ids[k][i + 1], ~s.top_chord_continuous)
        /\ \A j \in 1..Len(web) :
              Member(nb + nt + j, web[j][1], web[j][2], TRUE)
        /\ \A j \in 1..Len(vert) :
              Member(nb + nt + Len(web) + j, vert[j][1], vert[j][2], TRUE)

\* C16: assembly creates one member per consecutive node pair of each chord
\* segment, carrying the chord's continuity flag, and one member per
\* diagonal and per vertical pair, always pinned, whatever the chord flags;
\* the model holds sum of (segment length - 1) + diagonals + verticals
\* members, created in the order bottom chord, top chord, diagonals,
\* verticals.
C16_AssemblyMembers ==
    \A t \in Inst :
        /\ (Logged(t, "add_elements") /\ ~Altered(t)) =>
              Assembled(self[t], heap, system[t].element_map)
        /\ pc[t] = "add_elements" =>
              \A top_continuous, bottom_continuous \in BOOLEAN :
                  LET r == AddElements(
                              [self[t] EXCEPT
                                  !.top_chord_continuous = top_continuous,
                                  !.bottom_chord_continuous =
                                      bottom_continuous],
                              heap, system[t])
                  IN  Assembled(r.self, r.heap, r.system.element_map)
C16_Witness ==
    \E t \in Inst :
        /\ Constructed(t)
        /\ ~Altered(t)
        /\ Len(heap[self[t].top_chord_node_ids].ids) > 1
        /\ Len(heap[self[t].web_node_pairs]) > 0
        /\ Len(heap[self[t].web_verticals_node_pairs]) > 0
        /\ Len(system[t].element_map)
              > Len(heap[self[t].web_node_pairs])
                + Len(heap[self[t].web_verticals_node_pairs])


\* The support policies of Truss.__init__ (truss_class.py:82, 105)
SupportPolicies == {"simple", "pinned", "fixed"}
\* The chords a truss is supported on
SupportedChords(s, h) ==
    IF s.cls \in FlatClasses /\ s.supports_loc = "top_chord"
    THEN <<h[s.top_chord_node_ids]>>
    ELSE IF s.cls \in FlatClasses /\ s.supports_loc = "both"
    THEN <<h[s.bottom_chord_node_ids], h[s.top_chord_node_ids]>>
    ELSE <<h[s.bottom_chord_node_ids]>>
\* The support definitions d put, on every supported chord of s, the kinds
\* the policy s.supports_type asks for at the chord's first and last node,
\* and nothing else
SupportsAsPolicy(s, h, d) ==
    LET chords == SupportedChords(s, h)
        first == IF s.supports_type = "fixed" THEN "fixed" ELSE "pinned"
        last == IF s.supports_type = "simple" THEN "roller"
                ELSE s.supports_type
    IN  /\ Len(d) = 2 * Len(chords)
        /\ Len(d) \in {2, 4}
        /\ SeqSet(d) = UNION {{<<ChordIds(chords[k])[1], first>>,
                               <<ChordIds(chords[k])[Len(ChordIds(chords[k]))],
                                 last>>} : k \in 1..Len(chords)}
\* Every support definition of d has been given, in order, to the matching
\* operation of the model
Dispatched(d, supports) ==
    /\ Len(supports) = Len(d)
    /\ \A k \in 1..Len(d) :
          /\ supports[k].node_id = d[k][1]
          /\ d[k][2] = "fixed" => supports[k].operation = "add_support_fixed"
          /\ d[k][2] = "pinned" => supports[k].operation = "add_support_hinged"
          /\ d[k][2] = "roller" => supports[k].operation = "add_support_roll"

\* C17: the default supports sit at the first and last node of the bottom
\* chord (roof trusses always; flat trusses on the bottom chord, the top
\* chord or both, as supports_loc says, giving 2 or 4 supports); 'simple'
\* gives pinned at the first node and roller at the last node of each
\* supported chord, 'pinned' pinned at both, 'fixed' fixed at both; every
\* support definition is dispatched to the matching operation of the model.
C17_DefaultSupports ==
    \A t \in Inst :
        /\ (Logged(t, "define_supports") /\ ~Altered(t)) =>
              SupportsAsPolicy(self[t], heap,
                               heap[self[t].support_definitions])
        /\ (Logged(t, "add_supports") /\ ~Altered(t)) =>
              Dispatched(heap[self[t].support_definitions],
                         system[t].supports)
        /\ pc[t] = "define_supports" =>
              \A supports_type \in SupportPolicies :
                  LET s == [self[t] EXCEPT !.supports_type = supports_type]
                      d == DefineSupports(s,
                               heap[self[t].support_definitions],
                               heap[self[t].bottom_chord_node_ids],
                               heap[self[t].top_chord_node_ids])
                  IN  /\ SupportsAsPolicy(s, heap, d)
                      /\ Dispatched(d, AddSupports(NewSystem, d).supports)
C17_Witness ==
    \E t \in Inst :
        /\ Constructed(t)
        /\ ~Altered(t)
        /\ self[t].cls \in FlatClasses
        /\ self[t].supports_loc = "both"
        /\ Len(system[t].supports) = 4


(***************************************************************************)
(* validate() on a truss the caller has corrupted, as in the tests of      *)
(* describe_validate_method (tests/test_truss.py:469-506), and restored.   *)
(***************************************************************************)
Corruptions ==
    {"append_invalid_pair", "append_duplicate_node", "overwrite_node",
     "append_degenerate_pair", "displace_node_near", "displace_node_apart"}
\* The corruptions made to the truss so far
CorruptionsMade(t) ==
    Len(SelectSeq(calls[t], LAMBDA c : c \in Corruptions))
\* at most this many corruptions per truss
MaxCorruptions == 2
MayCorrupt(t, what) ==
    /\ Constructed(t)
    /\ ~Logged(t, what)
    /\ CorruptionsMade(t) < MaxCorruptions

\* truss.web_node_pairs.append((999, 1000)) (tests/test_truss.py:481)
append_invalid_pair(t) ==
    /\ MayCorrupt(t, "append_invalid_pair")
    /\ heap' = [heap EXCEPT ![self[t].web_node_pairs] =
                   Append(@, <<999, 1000>>)]
    /\ calls' = [calls EXCEPT ![t] = Append(@, "append_invalid_pair")]
    /\ UNCHANGED <<usage, args, pc, frame, self, system, err, vres>>

\* truss.nodes.append(Vertex(original.x, original.y));
\* truss.web_node_pairs.append((0, len(truss.nodes) - 1))
\* (tests/test_truss.py:490-492)
append_duplicate_node(t) ==
    /\ MayCorrupt(t, "append_duplicate_node")
    /\ heap' = [heap EXCEPT
                   ![self[t].nodes] = Append(@, V(@[1][1], @[1][2])),
                   ![self[t].web_node_pairs] =
                       Append(@, <<0, Len(heap[self[t].nodes])>>)]
    /\ calls' = [calls EXCEPT ![t] = Append(@, "append_duplicate_node")]
    /\ UNCHANGED <<usage, args, pc, frame, self, system, err, vres>>

\* truss.nodes[1] = Vertex(truss.nodes[0].x, truss.nodes[0].y)
\* (tests/test_truss.py:503)
overwrite_node(t) ==
    /\ MayCorrupt(t, "overwrite_node")
    /\ heap' = [heap EXCEPT ![self[t].nodes][2] =
                   V(heap[self[t].nodes][1][1], heap[self[t].nodes][1][2])]
    /\ calls' = [calls EXCEPT ![t] = Append(@, "overwrite_node")]
    /\ UNCHANGED <<usage, args, pc, frame, self, system, err, vres>>

\* truss.web_node_pairs.append((0, 0)): a member from a node to itself
append_degenerate_pair(t) ==
    /\ MayCorrupt(t, "append_degenerate_pair")
    /\ heap' = [heap EXCEPT ![self[t].web_node_pairs] = Append(@, <<0, 0>>)]
    /\ calls' = [calls EXCEPT ![t] = Append(@, "append_degenerate_pair")]
    /\ UNCHANGED <<usage, args, pc, frame, self, system, err, vres>>

\* truss.nodes[1] = Vertex(truss.nodes[0].x + dx, truss.nodes[0].y + dy):
\* node 1 moved next to node 0.  The sum is a double and Vertex casts it to
\* float32, so where node 0 is away from the origin an offset one tick
\* beyond the tolerance is stored as one within it; whether node 1 ends up
\* nearer than the tolerance on both axes is read off the stored
\* coordinates.
Offsets == {0, tolerance - 1, tolerance + 1}
displace_node(t, dx, dy) ==
    /\ dx + dy > 0
    /\ ~Logged(t, "overwrite_node")
    /\ ~Logged(t, "displace_node_near")
    /\ ~Logged(t, "displace_node_apart")
    /\ LET node0 == heap[self[t].nodes][1]
           moved == V(node0[1] + dx, node0[2] + dy)
           what  == IF Abs(moved[1] - node0[1]) < tolerance
                         /\ Abs(moved[2] - node0[2]) < tolerance
                    THEN "displace_node_near" ELSE "displace_node_apart"
       IN  /\ MayCorrupt(t, what)
           /\ calls' = [calls EXCEPT ![t] = Append(@, what)]
           /\ heap' = [heap EXCEPT ![self[t].nodes][2] = moved]
    /\ UNCHANGED <<usage, args, pc, frame, self, system, err, vres>>

\* list.remove(x): the list without the first x
Remove(list, x) ==
    LET i == CHOOSE i \in 1..Len(list) :
                 list[i] = x /\ \A j \in 1..(i - 1) : list[j] # x
    IN  SubSeq(list, 1, i - 1) \o SubSeq(list, i + 1, Len(list))

\* truss.web_node_pairs.remove((999, 1000)): the caller restoring the
\* diagonal list
remove_invalid_pair(t) ==
    /\ Constructed(t)
    /\ <<999, 1000>> \in SeqSet(heap[self[t].web_node_pairs])
    /\ ~Logged(t, "remove_invalid_pair")
    /\ heap' = [heap EXCEPT ![self[t].web_node_pairs] =
                   Remove(@, <<999, 1000>>)]
    /\ calls' = [calls EXCEPT ![t] = Append(@, "remove_invalid_pair")]
    /\ UNCHANGED <<usage, args, pc, frame, self, system, err, vres>>

\* The trusses validate() is exercised on: one of every family
ValidateArgs ==
    {a \in ChordArgs :
        /\ a.cls \in {"HoweFlatTruss", "WarrenFlatTruss",
                      "QueenPostRoofTruss", "AtticRoofTruss"}
        /\ a.overhang_length = 0}

ValidateInit ==
    /\ args \in ValidateArgs
    /\ truss_type = [t \in Inst |-> <<>>]
    /\ Start
ValidateNext ==
    \E t \in Users :
        \/ Construct(t)
        \/ Construction(t)
        \/ validate(t)
        \/ append_invalid_pair(t)
        \/ append_duplicate_node(t)
        \/ overwrite_node(t)
        \/ append_degenerate_pair(t)
        \/ \E dx, dy \in Offsets : displace_node(t, dx, dy)
        \/ remove_invalid_pair(t)
        \/ apply_q_load_to_top_chord(t, "single", None)
ValidateSpec == ValidateInit /\ [][ValidateNext]_vars

\* What the caller has done to the truss
HasInvalidPair(t) ==
    Logged(t, "append_invalid_pair") /\ ~Logged(t, "remove_invalid_pair")
HasDuplicate(t) ==
    \/ Logged(t, "append_duplicate_node")
    \/ Logged(t, "overwrite_node")
    \/ Logged(t, "displace_node_near")
HasZeroLengthMember(t) ==
    \/ Logged(t, "append_degenerate_pair")
    \/ Logged(t, "append_duplicate_node")
\* The outcome the three checks have in their order on such a truss
Outcome(t) ==
    IF HasInvalidPair(t) THEN "invalid node ID"
    ELSE IF HasDuplicate(t) THEN "Duplicate nodes"
    ELSE IF HasZeroLengthMember(t) THEN "Zero-length element"
    ELSE "True"

\* C18: validate() checks the node indices, then coinciding nodes, then
\* member lengths, and fails on the first category with a violation: with
\* an out-of-range index and duplicate nodes it reports the index error,
\* with duplicate nodes and a zero-length member the duplicate-node error,
\* and it returns success only when no category has a violation.
C18_CheckOrder ==
    [][\A t \in Users :
          vres'[t] # vres[t] =>
              /\ vres'[t] = Outcome(t)
              /\ vres'[t] = "True" <=>
                    ~(HasInvalidPair(t) \/ HasDuplicate(t)
                      \/ HasZeroLengthMember(t))]_vars
C18_Witness ==
    \E t \in Users :
        /\ vres[t] = "Duplicate nodes"
        /\ Logged(t, "append_duplicate_node")
        /\ ~Logged(t, "overwrite_node")
        /\ HasZeroLengthMember(t)
        /\ Validate(self[t], heap) = vres[t]


\* The step is the call `what` on the truss
Called(t, what) == calls'[t] = Append(calls[t], what)

\* C19: validate() has no side effects: succeeding or failing, it leaves
\* the node list, the chord lists, the diagonal and vertical pairs, the
\* support definitions and the structural model as they were, so calling
\* it again gives the same outcome, applying loads does not change its
\* outcome, and a truss whose diagonal list got an out-of-range pair that
\* was then removed validates successfully again.
C19_ValidateSideEffectFree ==
    [][\A t \in Users :
          /\ vres'[t] # vres[t] =>
                /\ self' = self
                /\ heap' = heap
                /\ system' = system
                /\ Validate(self'[t], heap') = vres'[t]
          /\ Called(t, "apply_q_load_to_top_chord") =>
                Validate(self'[t], heap') = Validate(self[t], heap)
          /\ (Called(t, "remove_invalid_pair") /\ CorruptionsMade(t) = 1) =>
                /\ Validate(self[t], heap) = "invalid node ID"
                /\ Validate(self'[t], heap') = "True"]_vars
C19_Witness ==
    \E t \in Users :
        /\ Logged(t, "remove_invalid_pair")
        /\ Logged(t, "apply_q_load_to_top_chord")
        /\ CorruptionsMade(t) = 1
        /\ vres[t] = "True"
        /\ Validate(self[t], heap) = "True"


(***************************************************************************)
(* Load cases and load combinations (fem/util/load.py).  The structural    *)
(* model is not part of the sources: a copy is a value, apply_load_case    *)
(* hands every load of the case to the model's method of the same name,    *)
(* scaled by the model's load_factor, solve gives every member the sum of  *)
(* the loads that act on it per component (a linear response), and adding  *)
(* two members adds their states component by component, an unsolved       *)
(* member adding nothing.                                                  *)
(***************************************************************************)
\* The factors of the load cases: 1.0 and 0.5
Factors == {Halves, 1}
CaseNames == {"dead", "live"}
LoadValues == {-10}
LoadDirections == {"x", "y"}
LoadedMembers == {1}
\* the arguments of the point, moment and dead loads
LoadedNodes == {1}
PointForces == {10}
Moments == {6}
Weights == {-4}
\* at most this many loads in the load cases together
MaxLoads == 2

\* LoadCase.__init__ (load.py:11-17)
NewLoadCase(name) == [name |-> name, spec |-> <<>>, c |-> 0]

\* LoadCase.q_load (load.py:19-30): the key "q_load-{c}" is the pair of the
\* method name and the counter
LoadCaseQLoad(lc, q, element_id, direction) ==
    [lc EXCEPT !.c = @ + 1,
               !.spec = DictSet(@, <<"q_load", lc.c + 1>>,
                                [q |-> q, element_id |-> element_id,
                                 direction |-> direction])]

\* LoadCase.point_load (load.py:32-44): the same counter, the key
\* "point_load-{c}"
LoadCasePointLoad(lc, node_id, Fx, Fy, rotation) ==
    [lc EXCEPT !.c = @ + 1,
               !.spec = DictSet(@, <<"point_load", lc.c + 1>>,
                                [node_id |-> node_id, Fx |-> Fx, Fy |-> Fy,
                                 rotation |-> rotation])]

\* LoadCase.moment_load (load.py:46-54)
LoadCaseMomentLoad(lc, node_id, Ty) ==
    [lc EXCEPT !.c = @ + 1,
               !.spec = DictSet(@, <<"moment_load", lc.c + 1>>,
                                [node_id |-> node_id, Ty |-> Ty])]

\* LoadCase.dead_load (load.py:56-64)
LoadCaseDeadLoad(lc, element_id, g) ==
    [lc EXCEPT !.c = @ + 1,
               !.spec = DictSet(@, <<"dead_load", lc.c + 1>>,
                                [element_id |-> element_id, g |-> g])]

\* LoadCombination.add_load_case for one case and one factor
\* (load.py:75-84): self.spec[lc.name] = [lc, factor], lc being a reference
AddLoadCase(spec, cases, lc, factor) ==
    DictSet(spec, cases[lc].name, <<lc, factor>>)

\* copy.deepcopy(system): a model of its own with the members, loads and
\* load factor of the model copied, not yet solved
Copy(sys) ==
    [system |-> sys,
     element_map |-> [k \in 1..Len(sys.element_map) |-> None]]

\* The model's method `method` called with the arguments a load case
\* recorded, the magnitudes scaled by the load factor
AppliedLoad(method, kwargs, load_factor) ==
    CASE method = "q_load" ->
            QLoad(kwargs.element_id,
                  Scalar((kwargs.q * load_factor) \div Halves),
                  Scalar(kwargs.direction), Absent, Absent)
      [] method = "point_load" ->
            [node_id |-> kwargs.node_id,
             Fx |-> (kwargs.Fx * load_factor) \div Halves,
             Fy |-> (kwargs.Fy * load_factor) \div Halves,
             rotation |-> kwargs.rotation]
      [] method = "moment_load" ->
            [node_id |-> kwargs.node_id,
             Ty |-> (kwargs.Ty * load_factor) \div Halves]
      [] method = "dead_load" ->
            [element_id |-> kwargs.element_id,
             g |-> (kwargs.g * load_factor) \div Halves]

\* ss.apply_load_case(lc): every load of the case, in the order of its
\* keys, scaled by the load factor the model has at that moment
ApplyLoadCase(ss, lc) ==
    [ss EXCEPT !.system.loads =
        @ \o [i \in 1..Len(lc.spec) |->
                 AppliedLoad(lc.spec[i][1][1], lc.spec[i][2],
                             ss.system.load_factor)]]

\* What a load adds to component d ("x", "y" or "t", the moment) of the
\* state of member k: a distributed load in direction d on k, a point
\* load's force in direction d, a moment, a dead load on k as a force in y
Contribution(load, k, d) ==
    IF "q" \in DOMAIN load
    THEN (IF load.element_id = k /\ load.direction = Scalar(d)
          THEN Val(load.q.value) ELSE 0)
    ELSE IF "Fx" \in DOMAIN load
    THEN (IF d = "x" THEN load.Fx ELSE IF d = "y" THEN load.Fy ELSE 0)
    ELSE IF "Ty" \in DOMAIN load
    THEN (IF d = "t" THEN load.Ty ELSE 0)
    ELSE (IF load.element_id = k /\ d = "y" THEN load.g ELSE 0)

\* The sum of the loads on component d of member k
RECURSIVE LoadOn(_, _, _, _)
LoadOn(loads, k, d, n) ==
    IF n = 0 THEN 0
    ELSE LoadOn(loads, k, d, n - 1) + Contribution(loads[n], k, d)

\* ss.solve(...): the state of every member
Solve(ss) ==
    [ss EXCEPT !.element_map =
        [k \in 1..Len(ss.system.element_map) |->
            Some(<<LoadOn(ss.system.loads, k, "x", Len(ss.system.loads)),
                   LoadOn(ss.system.loads, k, "y", Len(ss.system.loads)),
                   LoadOn(ss.system.loads, k, "t", Len(ss.system.loads))>>)]]

\* Element.__add__: the states added component by component
ElementAdd(a, b) ==
    IF IsNone(b) THEN a
    ELSE IF IsNone(a) THEN b
    ELSE Some(<<Val(a)[1] + Val(b)[1], Val(a)[2] + Val(b)[2],
                Val(a)[3] + Val(b)[3]>>)

\* The loop body with the loads applied before the factor is set (faulty
\* variant)
SolveCaseFactorLate(system_, lc, factor) ==
    LET ss == Copy(system_)
        loaded == ApplyLoadCase(ss, lc)
    IN  Solve([loaded EXCEPT !.system.load_factor = factor])

\* The body of the first loop of LoadCombination.solve (load.py:113-119)
SolveCase(system_, lc, factor) ==
    LET ss == Copy(system_)
        scaled == [ss EXCEPT !.system.load_factor = factor]
        loaded == ApplyLoadCase(scaled, lc)
    IN  Solve(loaded)

\* The first loop of LoadCombination.solve (load.py:111-120): the results
\* after the first n entries of self.spec
RECURSIVE SolveCases(_, _, _, _)
SolveCases(system_, spec, cases, n) ==
    IF n = 0 THEN <<>>
    ELSE DictSet(SolveCases(system_, spec, cases, n - 1),
                 cases[spec[n][2][1]].name,
                 SolveCase(system_, cases[spec[n][2][1]], spec[n][2][2]))

\* The second loop (load.py:122-127): ss_combination after the first n
\* results have been added to it
RECURSIVE Combine(_, _, _)
Combine(system_, res, n) ==
    IF n = 0 THEN Copy(system_)
    ELSE LET ss_combination == Combine(system_, res, n - 1)
         IN  [ss_combination EXCEPT !.element_map =
                 [k \in 1..Len(@) |-> ElementAdd(@[k], res[n][2].element_map[k])]]

\* LoadCombination.solve (load.py:86-130): the results it returns
CombinationSolve(system_, spec, cases) ==
    LET res == SolveCases(system_, spec, cases, Len(spec))
    IN  DictSet(res, "combination", Combine(system_, res, Len(res)))

\* The load cases and the combination are set up once the truss is built,
\* and loaded by the caller or not, and until the combination is solved
Unsolved == results = <<>> /\ \A t \in Users : Constructed(t)

\* The loads recorded so far: every case counts its own in c
RECURSIVE LoadsRecorded(_)
LoadsRecorded(n) ==
    IF n = 0 THEN 0 ELSE LoadsRecorded(n - 1) + loadcases[n].c

\* LoadCase(name)
LoadCase__init__(name) ==
    /\ Unsolved
    /\ Len(loadcases) < Cardinality(CaseNames)
    /\ loadcases' = Append(loadcases, NewLoadCase(name))
    /\ UNCHANGED <<vertices, expr, args, pc, frame, self, heap, system, err, calls, vres,
                   truss_type, ret, combination, results>>

\* lc.q_load(q, element_id, direction)
q_load(lc, q, element_id, direction) ==
    /\ Unsolved
    /\ lc \in 1..Len(loadcases)
    /\ LoadsRecorded(Len(loadcases)) < MaxLoads
    /\ loadcases' = [loadcases EXCEPT ![lc] =
                        LoadCaseQLoad(@, q, element_id, direction)]
    /\ UNCHANGED <<vertices, expr, args, pc, frame, self, heap, system, err, calls, vres,
                   truss_type, ret, combination, results>>

\* lc.point_load(node_id, Fx, Fy, rotation)
point_load(lc, node_id, Fx, Fy, rotation) ==
    /\ Unsolved
    /\ lc \in 1..Len(loadcases)
    /\ LoadsRecorded(Len(loadcases)) < MaxLoads
    /\ loadcases' = [loadcases EXCEPT ![lc] =
                        LoadCasePointLoad(@, node_id, Fx, Fy, rotation)]
    /\ UNCHANGED <<vertices, expr, args, pc, frame, self, heap, system, err, calls, vres,
                   truss_type, ret, combination, results>>

\* lc.moment_load(node_id, Ty)
moment_load(lc, node_id, Ty) ==
    /\ Unsolved
    /\ lc \in 1..Len(loadcases)
    /\ LoadsRecorded(Len(loadcases)) < MaxLoads
    /\ loadcases' = [loadcases EXCEPT ![lc] =
                        LoadCaseMomentLoad(@, node_id, Ty)]
    /\ UNCHANGED <<vertices, expr, args, pc, frame, self, heap, system, err, calls, vres,
                   truss_type, ret, combination, results>>

\* lc.dead_load(element_id, g)
dead_load(lc, element_id, g) ==
    /\ Unsolved
    /\ lc \in 1..Len(loadcases)
    /\ LoadsRecorded(Len(loadcases)) < MaxLoads
    /\ loadcases' = [loadcases EXCEPT ![lc] =
                        LoadCaseDeadLoad(@, element_id, g)]
    /\ UNCHANGED <<vertices, expr, args, pc, frame, self, heap, system, err, calls, vres,
                   truss_type, ret, combination, results>>

\* combination.add_load_case(lc, factor)
add_load_case(lc, factor) ==
    /\ Unsolved
    /\ lc \in 1..Len(loadcases)
    /\ \A i \in 1..Len(combination) : combination[i][2][1] # lc
    /\ combination' = AddLoadCase(combination, loadcases, lc, factor)
    /\ UNCHANGED <<vertices, expr, args, pc, frame, self, heap, system, err, calls, vres,
                   truss_type, ret, loadcases, results>>

\* The model all cases share when solve works on the model it was given
\* instead of a copy: the loads of the first n cases applied to it
RECURSIVE SharedModel(_, _, _, _)
SharedModel(system_, spec, cases, n) ==
    IF n = 0 THEN Copy(system_)
    ELSE Solve(ApplyLoadCase(
             [SharedModel(system_, spec, cases, n - 1) EXCEPT
                 !.system.load_factor = spec[n][2][2]],
             cases[spec[n][2][1]]))

\* combination.solve with ss = system in place of ss = copy.deepcopy(system)
\* (faulty variant)
solve_in_place(t) ==
    /\ Constructed(t)
    /\ results = <<>>
    /\ LET ss == SharedModel(system[t], combination, loadcases,
                             Len(combination))
           res == [i \in 1..Len(combination) |-> <<combination[i][1], ss>>]
       IN  /\ results' = DictSet(res, "combination",
                                 Combine(ss.system, res, Len(res)))
           /\ system' = [system EXCEPT ![t] = ss.system]
    /\ UNCHANGED <<vertices, expr, args, pc, frame, self, heap, err, calls, vres,
                   truss_type, ret, loadcases, combination>>

\* combination.solve(truss.system)
solve(t) ==
    /\ Constructed(t)
    /\ results = <<>>
    /\ results' = CombinationSolve(system[t], combination, loadcases)
    /\ UNCHANGED <<vertices, expr, args, pc, frame, self, heap, system, err, calls, vres,
                   truss_type, ret, loadcases, combination>>

\* The trusses load combinations are solved on: one flat truss, the Warren,
\* and one roof truss, the attic
CombinationArgs ==
    {a \in ValidateArgs :
        /\ a.cls \in {"WarrenFlatTruss", "AtticRoofTruss"}
        /\ Flat(a) => a.end_type = "flat"
        /\ Attic(a) => IsNone(a.attic_height)}
CombinationInit ==
    /\ args \in CombinationArgs
    /\ truss_type = [t \in Inst |-> <<>>]
    /\ Start
\* The caller may load the top chord of the truss once, before any load
\* case is created; the cases are then recorded, added and solved
CombinationNext ==
    \/ \E t \in Users : Construct(t) \/ Construction(t) \/ solve(t)
    \/ \E t \in Users : /\ loadcases = <<>>
                        /\ LoadCalls(t) = 0
                        /\ apply_q_load_to_top_chord(t, "single", None)
    \/ \E name \in CaseNames : LoadCase__init__(name)
    \/ \E lc \in 1..Cardinality(CaseNames), q \in LoadValues,
          element_id \in LoadedMembers, direction \in LoadDirections :
          q_load(lc, q, element_id, direction)
    \/ \E lc \in 1..Cardinality(CaseNames), node_id \in LoadedNodes :
          \/ \E Fx \in PointForces : point_load(lc, node_id, Fx, 0, 0)
          \/ \E Ty \in Moments : moment_load(lc, node_id, Ty)
    \/ \E lc \in 1..Cardinality(CaseNames), g \in Weights :
          dead_load(lc, 1, g)
    \/ \E lc \in 1..Cardinality(CaseNames), factor \in Factors :
          add_load_case(lc, factor)
CombinationSpec == CombinationInit /\ [][CombinationNext]_vars

\* The per-case results: all results but the last, "combination"
CaseResults == SubSeq(results, 1, Len(results) - 1)
\* The sum of component c of the state of member k over the per-case
\* results up to the n-th
RECURSIVE StateSum(_, _, _)
StateSum(k, c, n) ==
    IF n = 0 THEN 0
    ELSE StateSum(k, c, n - 1) + Val(results[n][2].element_map[k])[c]

\* C20: in the results of LoadCombination.solve the state of every member
\* in the "combination" model is the component-wise sum of its states in
\* the per-case models of all cases of the combination, and every case was
\* solved on a copy of its own with the case's factor set before its loads
\* were applied.
C20_Superposition ==
    results # <<>> =>
        LET n == Len(results) - 1
            ss_combination == results[n + 1][2]
        IN  /\ results[n + 1][1] = "combination"
            /\ n = Len(combination)
            /\ \A k \in 1..Len(system[1].element_map) :
                  ss_combination.element_map[k] =
                      IF n = 0 THEN None
                      ELSE Some(<<StateSum(k, 1, n), StateSum(k, 2, n),
                                  StateSum(k, 3, n)>>)
            /\ \A i \in 1..n :
                  LET lc == loadcases[combination[i][2][1]]
                      factor == combination[i][2][2]
                      ss == results[i][2]
                  IN  /\ results[i][1] = lc.name
                      /\ ss.system.load_factor = factor
                      /\ Len(ss.system.loads)
                            = Len(system[1].loads) + Len(lc.spec)
                      /\ \A j \in 1..Len(lc.spec) :
                            LET load == ss.system.loads[
                                            Len(system[1].loads) + j]
                                method == lc.spec[j][1][1]
                                given == lc.spec[j][2]
                            IN  CASE method = "q_load" ->
                                       /\ load.element_id = given.element_id
                                       /\ Val(load.q.value) * Halves
                                             = given.q * factor
                                  [] method = "point_load" ->
                                       /\ load.node_id = given.node_id
                                       /\ load.Fx * Halves = given.Fx * factor
                                       /\ load.Fy * Halves = given.Fy * factor
                                  [] method = "moment_load" ->
                                       /\ load.node_id = given.node_id
                                       /\ load.Ty * Halves = given.Ty * factor
                                  [] method = "dead_load" ->
                                       /\ load.element_id = given.element_id
                                       /\ load.g * Halves = given.g * factor
C20_Witness ==
    /\ Len(results) = Cardinality(CaseNames) + 1
    /\ {combination[i][2][2] : i \in 1..Len(combination)} = Factors
    /\ \E k \in LoadedMembers, c \in {1, 2} :
          /\ \A i \in 1..Len(CaseResults) :
                Val(CaseResults[i][2].element_map[k])[c] # 0
          /\ Val(results[Len(results)][2].element_map[k])[c]
                = Val(results[1][2].element_map[k])[c]
                  + Val(results[2][2].element_map[k])[c]


\* The sum of the first n numbers of a sequence
RECURSIVE Total(_, _)
Total(xs, n) == IF n = 0 THEN 0 ELSE Total(xs, n - 1) + xs[n]
\* The components of a member's state: the directions x and y and the
\* moment
Axes == <<"x", "y", "t">>
\* What the loads the caller put on the truss t before the call add to
\* component c of member k
GivenOn(t, k, c) ==
    Total([j \in 1..Len(system[t].loads) |->
              LET load == system[t].loads[j]
              IN  IF load.element_id = k /\ load.direction.value = <<Axes[c]>>
                  THEN load.q.value[1] ELSE 0],
          Len(system[t].loads))
\* What the loads recorded in the load case lc, before any factor, add to
\* component c of member k
CaseOn(lc, k, c) ==
    Total([j \in 1..Len(lc.spec) |->
              LET method == lc.spec[j][1][1]
                  given == lc.spec[j][2]
              IN  CASE method = "q_load" ->
                         (IF given.element_id = k /\ given.direction = Axes[c]
                          THEN given.q ELSE 0)
                    [] method = "point_load" ->
                         (IF c = 1 THEN given.Fx
                          ELSE IF c = 2 THEN given.Fy ELSE 0)
                    [] method = "moment_load" ->
                         (IF c = 3 THEN given.Ty ELSE 0)
                    [] method = "dead_load" ->
                         (IF given.element_id = k /\ c = 2 THEN given.g
                          ELSE 0)],
          Len(lc.spec))

\* C21: LoadCombination.solve never changes the structural model it is
\* given (its members, loads and scale factor are after the call what they
\* were before), and the solved copy of a case is not changed by applying or
\* solving any other case or by building the combination: it has the
\* members of the model given, the case's own factor, the loads of the
\* model given followed by the loads of its own case and no others, and
\* every member's state is what the model's loads and the case's own loads
\* times the case's factor give; the combination is built on a further
\* copy of the model given.
C21_Isolation ==
    [][results' # results =>
          /\ system' = system
          /\ \A t \in Users :
                /\ system'[t].element_map = system[t].element_map
                /\ system'[t].loads = system[t].loads
                /\ system'[t].load_factor = system[t].load_factor
                /\ results'[Len(results')][2].system = system[t]
                /\ \A i \in 1..(Len(results') - 1) :
                      LET ss == results'[i][2]
                          lc == loadcases[combination[i][2][1]]
                          factor == combination[i][2][2]
                      IN  /\ ss.system.element_map = system[t].element_map
                          /\ ss.system.load_factor = factor
                          /\ Len(ss.system.loads)
                                = Len(system[t].loads) + Len(lc.spec)
                          /\ SubSeq(ss.system.loads, 1, Len(system[t].loads))
                                = system[t].loads
                          /\ \A k \in 1..Len(system[t].element_map) :
                                \A c \in 1..Len(Axes) :
                                    Halves * Val(ss.element_map[k])[c]
                                        = Halves * GivenOn(t, k, c)
                                          + factor * CaseOn(lc, k, c)]_vars
C21_Witness ==
    /\ Len(results) = Cardinality(CaseNames) + 1
    /\ \A t \in Users :
          /\ system[t].loads # <<>>
          /\ system[t].load_factor = Halves
          /\ \A i \in 1..Len(CaseResults) :
                Len(CaseResults[i][2].system.loads) > Len(system[t].loads)
          /\ \E i \in 1..Len(CaseResults) :
                CaseResults[i][2].system.load_factor # system[t].load_factor
    /\ CaseResults[1][2].element_map # CaseResults[2][2].element_map

\* C22: the mapping LoadCombination.solve returns has one entry per load
\* case added to the combination, keyed by the case name and holding that
\* case's solved model, plus the entry "combination": adding a case adds
\* an entry, so after k cases there are k case entries and one
\* "combination" entry, and no case's model is lost or replaced.
C22_OneEntryPerCase ==
    [][/\ combination' # combination =>
             /\ Len(combination') = Len(combination) + 1
             /\ SubSeq(combination', 1, Len(combination)) = combination
       /\ results' # results =>
             /\ Len(results') = Len(combination) + 1
             /\ results'[Len(results')][1] = "combination"
             /\ \A i \in 1..Len(combination) :
                   results'[i][1] = loadcases[combination[i][2][1]].name]_vars


\* The members of the truss as index pairs: the consecutive pairs of every
\* chord segment, the diagonals and the verticals
ChordPairs(c) ==
    UNION {{<<c.ids[k][i], c.ids[k][i + 1]>> : i \in 1..(Len(c.ids[k]) - 1)} :
              k \in 1..Len(c.ids)}
MemberPairs(t) ==
    ChordPairs(heap[self[t].top_chord_node_ids])
    \cup ChordPairs(heap[self[t].bottom_chord_node_ids])
    \cup SeqSet(heap[self[t].web_node_pairs])
    \cup SeqSet(heap[self[t].web_verticals_node_pairs])

\* C23: in validate() a member joining two different node indices whose
\* positions coincide within the tolerance is reported by the
\* duplicate-node check; the zero-length error is produced only for a
\* member whose two endpoint indices are the same node, and for such a
\* member it is produced.
C23_ZeroLengthOnlySameNode ==
    \A t \in Users :
        (Constructed(t) /\ ~IndexCheckFails(self[t], heap)) =>
            LET nodes == heap[self[t].nodes]
                result == Validate(self[t], heap)
            IN  /\ \A m \in MemberPairs(t) :
                      (m[1] # m[2]
                       /\ Coincide(nodes[m[1] + 1], nodes[m[2] + 1])) =>
                          result = "Duplicate nodes"
                /\ result = "Zero-length element" =>
                      /\ \E m \in MemberPairs(t) : m[1] = m[2]
                      /\ \A m \in MemberPairs(t) :
                            ZeroLength(nodes, m[1], m[2]) => m[1] = m[2]
                /\ ((\E m \in MemberPairs(t) : m[1] = m[2])
                    /\ ~HasDuplicateNodes(nodes)) =>
                       result = "Zero-length element"
C23_Witness ==
    \E t \in Users :
        /\ vres[t] = "Zero-length element"
        /\ Validate(self[t], heap) = vres[t]
        /\ Logged(t, "append_degenerate_pair")
        /\ Logged(t, "displace_node_apart")
        /\ <<0, 1>> \in MemberPairs(t)

\* The instance as it is when the same arguments are given without overhang
WithoutOverhang(s) == [s EXCEPT !.overhang_length = 0]
\* The segment of a chord by name
SegmentOf(c, name) ==
    c.ids[CHOOSE k \in 1..Len(c.names) : c.names[k] = name]

\* C24: for every roof topology, a positive overhang_length instead of 0
\* adds exactly two nodes, appended after all other nodes; the positions of
\* all other nodes, the bottom chord, the diagonals, the verticals and the
\* supports are those of the truss without overhang; the left overhang node
\* is prepended to the "left" segment of the top chord and the right one
\* appended to its "right" segment, every other segment kept.
C24_OverhangAddsTwoNodes ==
    \A t \in Inst :
        (Constructed(t) /\ ~Altered(t) /\ Roof(args)
         /\ args.overhang_length > 0) =>
            LET plain == WithoutOverhang(self[t])
                nodes0 == DefineNodes(plain)
                conn0 == DefineConnectivity(plain)
                n == Len(nodes0)
                nodes == heap[self[t].nodes]
                top == heap[self[t].top_chord_node_ids]
            IN  /\ Len(nodes) = n + 2
                /\ SubSeq(nodes, 1, n) = nodes0
                /\ nodes[n + 1][1] < 0
                /\ nodes[n + 2][1] > self[t].width
                /\ heap[self[t].bottom_chord_node_ids] = conn0.bottom
                /\ heap[self[t].web_node_pairs] = conn0.web
                /\ heap[self[t].web_verticals_node_pairs] = conn0.verticals
                /\ heap[self[t].support_definitions]
                     = DefineSupports(plain, <<>>, conn0.bottom, conn0.top)
                /\ top.names = conn0.top.names
                /\ SegmentOf(top, "left")
                     = <<n>> \o SegmentOf(conn0.top, "left")
                /\ SegmentOf(top, "right")
                     = SegmentOf(conn0.top, "right") \o <<n + 1>>
                /\ \A k \in 1..Len(top.names) :
                      top.names[k] \notin {"left", "right"} =>
                          top.ids[k] = conn0.top.ids[k]
C24_Witness ==
    \E t \in Inst :
        /\ Constructed(t) /\ ~Altered(t)
        /\ Attic(args)
        /\ ~self[t].wall_ceiling_intersect
        /\ args.overhang_length > 0
        /\ Len(heap[self[t].nodes]) = 14
        /\ SegmentOf(heap[self[t].top_chord_node_ids], "left")[1] = 12

\* The node ids of the bottom and of the top chord of instance t
BottomIds(t) == SeqSet(ChordIds(heap[self[t].bottom_chord_node_ids]))
TopIds(t) == SeqSet(ChordIds(heap[self[t].top_chord_node_ids]))
\* The position of node id of instance t
NodeAt(t, id) == heap[self[t].nodes][id + 1]

\* C25: in every topology and for every accepted parameter set, each pair
\* in web_verticals_node_pairs joins a bottom-chord node to a top-chord
\* node with the same x coordinate; the Queen Post truss has the single
\* vertical (1, 4), from the bottom-chord centre node (width/2, 0) to the
\* peak (width/2, height).
C25_VerticalsPlumb ==
    \A t \in Inst :
        (Constructed(t) /\ ~Altered(t)) =>
            LET verticals == heap[self[t].web_verticals_node_pairs]
            IN  /\ \A i \in 1..Len(verticals) :
                      /\ verticals[i][1] \in BottomIds(t)
                      /\ verticals[i][2] \in TopIds(t)
                      /\ NodeAt(t, verticals[i][1])[1]
                           = NodeAt(t, verticals[i][2])[1]
                /\ self[t].cls = "QueenPostRoofTruss" =>
                      /\ verticals = <<<<1, 4>>>>
                      /\ NodeAt(t, 1) = V(self[t].width \div 2, 0)
                      /\ NodeAt(t, 4)
                           = Vertex(Double(self[t].width \div 2),
                                    self[t].height)
C25_Witness ==
    \E t \in Inst :
        /\ Constructed(t) /\ ~Altered(t)
        /\ self[t].cls = "QueenPostRoofTruss"
        /\ heap[self[t].web_verticals_node_pairs] = <<<<1, 4>>>>
        /\ NodeAt(t, 4)[2] > 0

\* The node ids of a flat-list chord of instance t, in chord order
BottomList(t) == ChordIds(heap[self[t].bottom_chord_node_ids])
TopList(t) == ChordIds(heap[self[t].top_chord_node_ids])
\* Consecutive ids of the list refer to nodes with strictly increasing x
IncreasingX(t, ids) ==
    \A i \in 1..(Len(ids) - 1) :
        NodeAt(t, ids[i])[1] < NodeAt(t, ids[i + 1])[1]

\* C26: in every flat truss (Howe, Pratt, Warren; every end type and panel
\* count) every index in bottom_chord_node_ids refers to a node at y = 0,
\* every index in top_chord_node_ids to a node at y = height, and
\* consecutive indices of each chord refer to nodes with strictly
\* increasing x.
C26_FlatChordLevels ==
    \A t \in Inst :
        (Constructed(t) /\ ~Altered(t) /\ Flat(args)) =>
            /\ \A id \in BottomIds(t) : NodeAt(t, id)[2] = 0
            /\ \A id \in TopIds(t) :
                  Double(NodeAt(t, id)[2]) = self[t].height
            /\ IncreasingX(t, BottomList(t))
            /\ IncreasingX(t, TopList(t))
\* The same for the Howe and Pratt trusses only
C26_HoweAndPrattChordLevels ==
    \A t \in Inst :
        (Constructed(t) /\ ~Altered(t) /\ args.cls \in HoweOrPratt) =>
            /\ \A id \in BottomIds(t) : NodeAt(t, id)[2] = 0
            /\ \A id \in TopIds(t) :
                  Double(NodeAt(t, id)[2]) = self[t].height
            /\ IncreasingX(t, BottomList(t))
            /\ IncreasingX(t, TopList(t))

\* C27: in every constructed truss of every topology every node of the node
\* list is an endpoint of at least one member: each index in
\* [0, len(nodes) - 1] appears in a chord list, a diagonal pair or a
\* vertical pair.
C27_EveryNodeConnected ==
    \A t \in Inst :
        (Constructed(t) /\ ~Altered(t)) =>
            0..(Len(heap[self[t].nodes]) - 1) \subseteq ReferencedIds(t)
\* The same for every topology but the Warren truss
C27_EveryNodeConnectedButWarren ==
    \A t \in Inst :
        (Constructed(t) /\ ~Altered(t) /\ args.cls # "WarrenFlatTruss") =>
            0..(Len(heap[self[t].nodes]) - 1) \subseteq ReferencedIds(t)

\* The panel line of node id: the number of node abscissae left of it
PanelLine(t, id) ==
    Cardinality({k \in 1..Len(heap[self[t].nodes]) :
                    /\ heap[self[t].nodes][k][1] < NodeAt(t, id)[1]
                    /\ \A j \in 1..(k - 1) :
                          heap[self[t].nodes][j][1] # heap[self[t].nodes][k][1]})
\* The panel a diagonal crosses: the panel line of its left end
PanelOf(t, pair) ==
    IF PanelLine(t, pair[1]) < PanelLine(t, pair[2])
    THEN PanelLine(t, pair[1]) ELSE PanelLine(t, pair[2])

\* C28: in a Howe or Pratt flat truss, for every end type and every panel
\* count n_units >= 2, even or odd, web_node_pairs holds exactly n_units + 2
\* diagonals, each joining a bottom-chord node and a top-chord node on
\* adjacent panel lines, one diagonal in each of the n_units + 2 panels and
\* none repeated.
C28_OneDiagonalPerPanel ==
    \A t \in Inst :
        (Constructed(t) /\ ~Altered(t) /\ args.cls \in HoweOrPratt
         /\ self[t].n_units >= 2) =>
            LET web == heap[self[t].web_node_pairs]
            IN  /\ Len(web) = self[t].n_units + 2
                /\ \A i \in 1..Len(web) :
                      /\ \/ web[i][1] \in BottomIds(t) /\ web[i][2] \in TopIds(t)
                         \/ web[i][1] \in TopIds(t) /\ web[i][2] \in BottomIds(t)
                      /\ Abs(PanelLine(t, web[i][1]) - PanelLine(t, web[i][2]))
                           = 1
                /\ {PanelOf(t, web[i]) : i \in 1..Len(web)}
                     = 0..(self[t].n_units + 1)
                /\ \A i, j \in 1..Len(web) :
                      i # j => {web[i][1], web[i][2]} # {web[j][1], web[j][2]}
C28_Witness ==
    \E t \in Inst :
        /\ Constructed(t) /\ ~Altered(t)
        /\ args.cls = "PrattFlatTruss"
        /\ args.end_type = "triangle_up"
        /\ self[t].n_units = 3
        /\ Len(heap[self[t].web_node_pairs]) = 5

\* The members of the two chords in the structural model of instance t
ChordMembers(t) ==
    {e \in SeqSet(system[t].element_map) :
        e.id \in SeqSet(ChordIds(heap[self[t].bottom_chord_element_ids]))
                 \cup SeqSet(ChordIds(heap[self[t].top_chord_element_ids]))}
\* supports_type 'simple', both chords continuous, only pinned and roller
\* supports, no chord member with pinned ends
SimpleAndContinuous(t) ==
    /\ self[t].supports_type = "simple"
    /\ self[t].top_chord_continuous
    /\ self[t].bottom_chord_continuous
    /\ \A d \in SeqSet(heap[self[t].support_definitions]) :
          d[2] \in {"pinned", "roller"}
    /\ ChordMembers(t) # {}
    /\ \A e \in ChordMembers(t) : ~e.pinned
\* Node id is a pinned support of instance t
PinnedAt(t, id) == <<id, "pinned">> \in SeqSet(heap[self[t].support_definitions])

\* C29 as stated: every constructed truss has supports_type 'simple' and
\* both chords continuous: its support definitions contain only 'pinned'
\* and 'roller' kinds, with node 0 pinned, and no chord member is created
\* with pinned ends.
C29_Node0Pinned ==
    \A t \in Inst :
        (Constructed(t) /\ ~Altered(t)) =>
            SimpleAndContinuous(t) /\ PinnedAt(t, 0)

\* C29, amended: every constructed truss has supports_type 'simple' and both
\* chords continuous: its support definitions contain only 'pinned' and
\* 'roller' kinds, with node 0 pinned, or, for a flat truss supported on the
\* top chord only, the first top-chord node pinned, and no chord member is
\* created with pinned ends.
C29_SimpleSupportsContinuousChords ==
    \A t \in Inst :
        (Constructed(t) /\ ~Altered(t)) =>
            /\ SimpleAndContinuous(t)
            /\ IF Flat(args) /\ self[t].supports_loc = "top_chord"
               THEN PinnedAt(t, SeqMin(TopList(t)))
               ELSE PinnedAt(t, 0)
C29_Witness ==
    \E t \in Inst :
        /\ Constructed(t) /\ ~Altered(t)
        /\ args.cls = "HoweFlatTruss"
        /\ self[t].supports_loc = "top_chord"
        /\ ~PinnedAt(t, 0)
        /\ PinnedAt(t, SeqMin(TopList(t)))
        /\ Len(system[t].supports) = 2

(***************************************************************************)
(* Vertex arithmetic (vertex.py:44-118).  A Vertex owns a float32          *)
(* coordinate array; the operand of +, -, * and / is another Vertex, a raw *)
(* pair (tuple or list) or a number.  Every operator returns a new Vertex; *)
(* displace_polar changes the coordinates of its Vertex in place.          *)
(* The coordinates are 0 or between a quarter unit and Reach, where every  *)
(* float32 is a whole number of ticks.  Not modelled: a quotient by a zero *)
(* component, whose coordinates are inf or nan.                            *)
(***************************************************************************)
MaxExpressions == 2
Reach == 16 * Scale
Coordinates == {0, Scale, 3 * Scale}
RawPairs == Coordinates \X Coordinates
Scalars == {2 * Scale, 3 * Scale}
\* displace_polar(alpha, radius): alpha = k * pi / 2 for k in Turns
Turns == {0, 1}
Radii == {2 * Scale}
\* vertex_range(v1, v2, n)
Steps == {1, 2}
\* The numbers the Vertex objects can have: an expression makes at most n + 1
VertexIds == 1..(3 * MaxExpressions)
\* An operand: a raw pair, the Vertex object number id, or a number, which
\* numpy broadcasts over the two coordinates
Raw(p) == [kind |-> "pair", pair |-> p, id |-> 0]
Ref(id) == [kind |-> "vertex", pair |-> <<0, 0>>, id |-> id]
Num(x) == [kind |-> "scalar", pair |-> <<x, x>>, id |-> 0]
\* The arguments of displace_polar
Polar(k, radius, inverse_z_axis) ==
    [kind |-> "polar", pair |-> <<k, radius>>,
     id |-> IF inverse_z_axis THEN 1 ELSE 0]
Operands ==
    {Raw(p) : p \in RawPairs} \cup {Ref(id) : id \in VertexIds}
        \cup {Num(x) : x \in Scalars}
\* The Vertex v exists, and so does the operand
Exists(v) == v \in 1..Len(vertices)
Given(other) == other.kind = "vertex" => Exists(other.id)
\* The coordinates the model holds: 0, and those from a quarter unit, where
\* the float32 grid is a tick, up to Reach
InReach(c) ==
    \A i \in 1..2 :
        c[i] = 0 \/ (Abs(c[i]) >= Significand \div 2 /\ Abs(c[i]) < Reach)

\* other = np.asarray(other) for a tuple or list, other.coordinates for a
\* Vertex (vertex.py:61-64, 73-76); a Python number takes the float32 type
\* of the coordinates in the operation
AsArray(vs, other) ==
    IF other.kind = "vertex" THEN vs[other.id]
    ELSE IF other.kind = "scalar"
         THEN <<Float32(other.pair[1]), Float32(other.pair[2])>>
         ELSE other.pair

\* Vertex.__add__ (vertex.py:60-67): a new Vertex
VertexAdd(vs, v, other) ==
    V(vs[v][1] + AsArray(vs, other)[1], vs[v][2] + AsArray(vs, other)[2])
\* Vertex.__radd__ (vertex.py:69-70)
VertexRAdd(vs, v, other) == VertexAdd(vs, v, other)
\* Vertex.__sub__ (vertex.py:72-79): a new Vertex
VertexSub(vs, v, other) ==
    V(vs[v][1] - AsArray(vs, other)[1], vs[v][2] - AsArray(vs, other)[2])
\* Vertex.__rsub__ (vertex.py:81-82): return self.__sub__(other)
VertexRSub(vs, v, other) == VertexSub(vs, v, other)
\* Vertex(c * o) and Vertex(c / o) of two coordinate arrays (vertex.py:90-91,
\* 104-105)
MulBy(c, o) == V(Mul(c[1], o[1]), Mul(c[2], o[2]))
DivBy(c, o) == V(Div(c[1], o[1]), Div(c[2], o[2]))
\* Vertex.__mul__ (vertex.py:84-91): a new Vertex
VertexMul(vs, v, other) == MulBy(vs[v], AsArray(vs, other))
\* Vertex.__rmul__ (vertex.py:93-94)
VertexRMul(vs, v, other) == VertexMul(vs, v, other)
\* Vertex.__truediv__ (vertex.py:96-105): a new Vertex
VertexTrueDiv(vs, v, other) == DivBy(vs[v], AsArray(vs, other))
\* Vertex.modulus (vertex.py:44-45): squares, sum and root in float32
modulus(c) == Sqrt(Float32(MulBy(c, c)[1] + MulBy(c, c)[2]))
\* Vertex.unit (vertex.py:47-48): (1 / self.modulus()) * self, the quotient
\* a double
unit(vs, v) == VertexRMul(vs, v, Num(Div(Scale, modulus(vs[v]))))
\* The coordinates after displace_polar (vertex.py:50-58): math.cos(alpha) is
\* 1 and 6.1e-17, math.sin(alpha) 0 and 1, for alpha 0 and pi / 2; the
\* product with the radius is added to the float32 coordinate
Displaced(c, k, radius, inverse_z_axis) ==
    LET dx == IF k = 0 THEN radius ELSE 0
        dy == IF k = 0 THEN 0 ELSE radius
    IN  <<Float32(c[1] + Float32(dx)),
          IF inverse_z_axis THEN Float32(c[2] - Float32(dy))
          ELSE Float32(c[2] + Float32(dy))>>
\* vertex_range (vertex.py:116-118): dv * i / n for dv = v2 - v1, and the
\* Vertex v1 + dv * i / n
RangeStep(vs, v1, v2, n, i) ==
    LET dv == VertexSub(vs, v2, Ref(v1))
        di == MulBy(dv, AsArray(vs, Num(i * Scale)))
    IN  DivBy(di, AsArray(vs, Num(n * Scale)))
RangePoint(vs, v1, v2, n, i) ==
    V(vs[v1][1] + RangeStep(vs, v1, v2, n, i)[1],
      vs[v1][2] + RangeStep(vs, v1, v2, n, i)[2])
\* The products and quotients of two arrays that stay within reach
Multipliable(c, o) ==
    \A i \in 1..2 :
        (Abs(c[i]) \div Scale + 1) * (Abs(o[i]) \div Scale + 1)
            <= Reach \div Scale
Divisible(c, o) ==
    \A i \in 1..2 :
        o[i] # 0 /\ Abs(c[i]) \div (Reach \div Scale) < Abs(o[i])

\* The expression evaluated, its operands, the object it returned and the
\* exception it raised; count is the number of expressions evaluated so far
Evaluated(op, v, other, out) ==
    [op |-> op, self |-> v, other |-> other, out |-> out, raised |-> "",
     count |-> expr.count + 1]
\* An operator call returning the new Vertex `result`
Returns(op, v, other, result) ==
    /\ expr.count < MaxExpressions
    /\ InReach(result)
    /\ vertices' = Append(vertices, result)
    /\ expr' = Evaluated(op, v, other, Len(vertices) + 1)
    /\ UNCHANGED <<args, pc, frame, self, heap, system, err, calls, vres,
                   truss_type, ret, loadcases, combination, results>>

\* Vertex(x, y)
Vertex__init__(x, y) ==
    /\ Returns("Vertex", 0, Raw(<<x, y>>), V(x, y))
\* v + other
Vertex__add__(v, other) ==
    /\ Exists(v) /\ Given(other)
    /\ Returns("add", v, other, VertexAdd(vertices, v, other))
\* other + v for a raw pair or a number: tuple, list and the numbers do not
\* add a Vertex, so Python calls v.__radd__(other)
Vertex__radd__(v, other) ==
    /\ Exists(v) /\ other.kind # "vertex"
    /\ Returns("radd", v, other, VertexRAdd(vertices, v, other))
\* v - other
Vertex__sub__(v, other) ==
    /\ Exists(v) /\ Given(other)
    /\ Returns("sub", v, other, VertexSub(vertices, v, other))
\* other - v for a raw pair or a number: tuple and list have no subtraction,
\* and the numbers none with a Vertex, so Python calls v.__rsub__(other)
Vertex__rsub__(v, other) ==
    /\ Exists(v) /\ other.kind # "vertex"
    /\ Returns("rsub", v, other, VertexRSub(vertices, v, other))
\* v * other
Vertex__mul__(v, other) ==
    /\ Exists(v) /\ Given(other)
    /\ Multipliable(vertices[v], AsArray(vertices, other))
    /\ Returns("mul", v, other, VertexMul(vertices, v, other))
\* other * v for a raw pair or a number: Python calls v.__rmul__(other)
Vertex__rmul__(v, other) ==
    /\ Exists(v) /\ other.kind # "vertex"
    /\ Multipliable(vertices[v], AsArray(vertices, other))
    /\ Returns("rmul", v, other, VertexRMul(vertices, v, other))
\* v / other
Vertex__truediv__(v, other) ==
    /\ Exists(v) /\ Given(other)
    /\ Divisible(vertices[v], AsArray(vertices, other))
    /\ Returns("truediv", v, other, VertexTrueDiv(vertices, v, other))
\* v.unit(): 1 / 0.0 raises ZeroDivisionError for the zero vector
Vertex_unit(v) ==
    /\ Exists(v)
    /\ expr.count < MaxExpressions
    /\ Multipliable(vertices[v], vertices[v])
    /\ InReach(MulBy(vertices[v], vertices[v]))
    /\ IF modulus(vertices[v]) = 0
       THEN /\ expr' = [Evaluated("unit", v, Ref(v), 0)
                           EXCEPT !.raised = "ZeroDivisionError"]
            /\ UNCHANGED <<vertices, args, pc, frame, self, heap, system, err,
                           calls, vres, truss_type, ret, loadcases,
                           combination, results>>
       ELSE /\ Scale \div (Reach \div Scale) < modulus(vertices[v])
            /\ InReach(Num(Div(Scale, modulus(vertices[v]))).pair)
            /\ Returns("unit", v, Ref(v), unit(vertices, v))
\* v.displace_polar(alpha, radius, inverse_z_axis): changes v, returns None.
\* A coordinate 0 would become math.cos(pi / 2) * radius = 1.2e-16, which is
\* not among the coordinates held
displace_polar(v, k, radius, inverse_z_axis) ==
    /\ Exists(v)
    /\ expr.count < MaxExpressions
    /\ k = 1 => vertices[v][1] # 0
    /\ InReach(Displaced(vertices[v], k, radius, inverse_z_axis))
    /\ vertices' = [vertices EXCEPT
                       ![v] = Displaced(vertices[v], k, radius, inverse_z_axis)]
    /\ expr' = Evaluated("displace_polar", v,
                          Polar(k, radius, inverse_z_axis), 0)
    /\ UNCHANGED <<args, pc, frame, self, heap, system, err, calls, vres,
                   truss_type, ret, loadcases, combination, results>>
\* vertex_range(v1, v2, n): a list of n + 1 new Vertex objects
vertex_range(v1, v2, n) ==
    /\ Exists(v1) /\ Exists(v2)
    /\ expr.count < MaxExpressions
    /\ Multipliable(VertexSub(vertices, v2, Ref(v1)), <<n * Scale, n * Scale>>)
    /\ \A i \in 0..n :
          /\ InReach(RangeStep(vertices, v1, v2, n, i))
          /\ InReach(RangePoint(vertices, v1, v2, n, i))
    /\ vertices' = vertices
                     \o [i \in 1..(n + 1) |->
                            RangePoint(vertices, v1, v2, n, i - 1)]
    /\ expr' = Evaluated("vertex_range", v1, Ref(v2), Len(vertices) + 1)
    /\ UNCHANGED <<args, pc, frame, self, heap, system, err, calls, vres,
                   truss_type, ret, loadcases, combination, results>>

VertexInit ==
    /\ args \in {a \in CombinationArgs : a.cls = "WarrenFlatTruss"}
    /\ truss_type = [t \in Inst |-> <<>>]
    /\ Start
VertexNext ==
    \/ \E x, y \in Coordinates : Vertex__init__(x, y)
    \/ \E v \in VertexIds, other \in Operands :
          \/ Vertex__add__(v, other)
          \/ Vertex__radd__(v, other)
          \/ Vertex__sub__(v, other)
          \/ Vertex__rsub__(v, other)
          \/ Vertex__mul__(v, other)
          \/ Vertex__rmul__(v, other)
          \/ Vertex__truediv__(v, other)
    \/ \E v \in VertexIds : Vertex_unit(v)
    \/ \E v \in VertexIds, k \in Turns, radius \in Radii,
          inverse_z_axis \in BOOLEAN :
          displace_polar(v, k, radius, inverse_z_axis)
    \/ \E v1, v2 \in VertexIds, n \in Steps : vertex_range(v1, v2, n)
VertexSpec == VertexInit /\ [][VertexNext]_vars

\* C30: for a Vertex v and a raw 2-element pair p the expression p - v
\* yields the component-wise difference (p.x - v.x, p.y - v.y), the
\* negation of v - p, as a new Vertex, leaving v unchanged.
C30_ReflectedSubtraction ==
    [][(Len(vertices') > Len(vertices) /\ expr'.op = "rsub"
        /\ expr'.other.kind = "pair") =>
          LET v == vertices[expr'.self]
              p == expr'.other.pair
          IN  /\ expr'.out = Len(vertices) + 1
              /\ vertices'[expr'.out] = V(p[1] - v[1], p[2] - v[2])
              /\ vertices'[expr'.out]
                   = V(-VertexSub(vertices, expr'.self, expr'.other)[1],
                       -VertexSub(vertices, expr'.self, expr'.other)[2])
              /\ SubSeq(vertices', 1, Len(vertices)) = vertices]_vars
\* What p - v does yield: v - p, as a new Vertex, leaving v unchanged
C30_ReflectedSubtractionIsSubtraction ==
    [][(Len(vertices') > Len(vertices) /\ expr'.op = "rsub"
        /\ expr'.other.kind = "pair") =>
          LET v == vertices[expr'.self]
              p == expr'.other.pair
          IN  /\ expr'.out = Len(vertices) + 1
              /\ vertices'[expr'.out] = V(v[1] - p[1], v[2] - p[2])
              /\ SubSeq(vertices', 1, Len(vertices)) = vertices]_vars

=============================================================================
